---- MODULE Spec2Model ----
(***************************************************************************)
(* The WMS adapters and the shared broker client as state machines.        *)
(*  - services/wms-adapter/index.js, the line-protocol adapter: the TCP    *)
(*    socket to the warehouse with its reconnect timer, the broker link    *)
(*    with the order.created consumer, the line buffer of the data         *)
(*    handler and the orderId -> packageId correlation map;                *)
(*  - services/wms-adapter/server.js, the request/response adapter: its    *)
(*    TCP connection, isConnected, the reconnect timer and the shutdown    *)
(*    handler;                                                             *)
(*  - the MessageBroker class of shared/validation.js: connect, publish,   *)
(*    subscribe, bindQueue and close.                                      *)
(* The environment (the warehouse, the broker, the network) is modelled    *)
(* by the actions whose names start with Env.                              *)
(***************************************************************************)
EXTENDS Integers, Sequences, FiniteSets, TLC

\* ------------------------------------------------------------ value spaces
Null == "null"

\* the order.created messages the order service may publish: two well-formed
\* ones, one without orderId and one whose body is not JSON
MsgIds == {"m1", "m2", "mNoId", "mBad"}
BadJson == [json |-> FALSE, orderId |-> Null]
Content(m) ==
    CASE m = "m1" -> [json |-> TRUE, orderId |-> "o1"]
      [] m = "m2" -> [json |-> TRUE, orderId |-> "o2"]
      [] m = "mNoId" -> [json |-> TRUE, orderId |-> Null]
      [] OTHER -> BadJson
ValidMsgs == {m \in MsgIds : Content(m).json /\ Content(m).orderId # Null}

RegisterLine == [type |-> "register_adapter", orderId |-> Null]
ReceivePackage(o) == [type |-> "receive_package", orderId |-> o]

\* ids the warehouse uses in its events
Orders == {"o1", "o2"}
Packages == {"p1", "p2"}

\* the event types of the mapping table, one type that is not in it, one that
\* names a property every JavaScript object inherits, and no type at all
KnownTypes == {"ack", "package_received", "package_ready", "package_scanned",
               "package_loaded", "error"}
UnlistedTypes == {"package_damaged"}
InheritedNames == {"constructor"}
EventTypes == KnownTypes \cup UnlistedTypes \cup InheritedNames \cup {Null}

\* a parsed line of the warehouse: {type, packageId?, orderId?}
Events == [type : EventTypes, packageId : Packages \cup {Null}, orderId : Orders \cup {Null}]

\* the bytes of the stream, as tokens: the JSON text of an event in two
\* pieces (a chunk boundary may fall between them), text that is not JSON, and
\* the newline
NL == [k |-> "nl", e |-> Null]
Garbage == [k |-> "garbage", e |-> Null]
HeadOf(e) == [k |-> "head", e |-> e]
TailOf(e) == [k |-> "tail", e |-> e]
LineOf(e) == <<HeadOf(e), TailOf(e), NL>>

\* longest chunk, in tokens, that is cut freely out of the stream
MaxChunk == 2
\* longest unterminated line the buffer is let to hold
MaxBuf == 1

\* the event whose text the freely cut chunks are made of
CutEvent == [type |-> "package_ready", packageId |-> "p1", orderId |-> Null]
CutTokens == {NL, HeadOf(CutEvent), TailOf(CutEvent)}
SeqsUpTo(S, n) == UNION {[1..k -> S] : k \in 1..n}
\* the lines that arrive several to a chunk: two events and one line of noise
BatchEvents == {[type |-> "ack", packageId |-> "p1", orderId |-> "o1"], CutEvent}
BatchLines == {LineOf(e) : e \in BatchEvents} \cup {<<Garbage, NL>>}
\* the lines of S in every order, each at most once
Arrangements(S) ==
    {ls \in SeqsUpTo(S, Cardinality(S)) : \A i, j \in 1..Len(ls) : ls[i] = ls[j] => i = j}
RECURSIVE Flatten(_)
Flatten(ss) == IF ss = <<>> THEN <<>> ELSE Head(ss) \o Flatten(Tail(ss))
\* what one 'data' event may carry: one whole line with any event, a free cut
\* of the stream, or several whole lines
Chunks ==
    {LineOf(e) : e \in Events}
        \cup SeqsUpTo(CutTokens, MaxChunk)
        \cup {Flatten(ls) : ls \in Arrangements(BatchLines)}

\* most bytes of one connection whose history is kept, in tokens
MaxStream == 6
\* the chunks of a stream whose cutting is followed: free cuts and whole lines
StreamChunks ==
    SeqsUpTo(CutTokens, MaxChunk) \cup {Flatten(ls) : ls \in Arrangements(BatchLines)}

\* the chunks that may follow a line buffer: the lines with any event begin
\* at a line boundary; what follows a partial line is a free cut or a batch
ChunksAfter(buf) == IF buf = <<>> THEN Chunks ELSE StreamChunks

\* most commands server.js sends; the ids of requests, and the ids a reply
\* may carry, one of them never issued
MaxRequests == 2
RequestIds == 1..MaxRequests
ReplyIds == 1..(MaxRequests + 1)
\* the replies of the warehouse, and no reply
Replies == [id : ReplyIds, status : {"OK", "ERR"}]
NoTail == [id |-> 0, status |-> "none"]

\* cms-adapter: the order.created messages on cms-adapter-q, one of them not
\* JSON; the orders in them; the ways the SOAP call can end: a response with
\* Success true or false, no response (transport error, timeout after 5000
\* ms), a body that is not XML, XML without a CreateOrderResponse
CmsMsgIds == {"c1", "c2", "cBad"}
CmsParses(m) == m # "cBad"
CmsOrder(m) == [orderId |-> m, clientId |-> "u1"]
CmsAnswers == {"true", "false", "transport", "timeout", "notxml", "noresponse"}
CmsOrderId(order) == <<"CMS", order.orderId>>

\* ros-adapter: the environment of the process: ROS_API_KEY set or not, and
\* any further setting, here one that asks for the tolerant variant
RosEnvs == [up : {TRUE}, apiKey : BOOLEAN, variant : {"strict", "tolerant"}]
\* the order.created messages on order.created.ros, one without pickup coordinates
RosMsgIds == {"r1", "r2"}
RosData(m) == [orderId |-> m, hasPickup |-> (m # "r2"), correlationId |-> IF m = "r1" THEN "k1" ELSE "k2"]
\* how the driver lookup and the POST to the optimizer can end
RosDriverAnswers == {"drivers", "nodrivers", "error"}
RosAnswers == {"success", "nosuccess", "httperror"}
\* points of the map, and distances the remote optimizer may report
Coords == {"A", "B"}
RemoteDistances == {1, 2}
\* most requests to the remote optimizer
MaxCalls == 2

\* api-gateway: tokens a client may send: JWTs signed with JWT_SECRET or
\* with another key, expired or not, for a user of some role, and a string
\* that is no JWT
GwRoles == {"client", "driver", "admin"}
GwJwts ==
    [jwt : {TRUE}, signed : {TRUE}, expired : {FALSE}, role : GwRoles]
        \cup {[jwt |-> TRUE, signed |-> TRUE, expired |-> TRUE, role |-> "client"],
               [jwt |-> TRUE, signed |-> FALSE, expired |-> FALSE, role |-> "admin"]}
NotAJwt == [jwt |-> FALSE, signed |-> FALSE, expired |-> FALSE, role |-> "client"]
GwTokens == GwJwts \cup {NotAJwt}
\* the Authorization header as the words between its spaces; <<>> without one
GwHeaders == {<<>>, <<"Bearer">>} \cup {<<scheme, t>> : scheme \in {"Bearer", "Basic"}, t \in GwTokens}
\* protected routes and the roles their authorizeRole lists, {} without one
GwRoutes == {"/api/users", "/api/drivers", "/api/cms"}
GwAllowed(route) ==
    CASE route = "/api/users" -> {}
      [] route = "/api/drivers" -> {"driver", "admin"}
      [] route = "/api/cms" -> {"admin"}
\* most requests forwarded downstream
MaxProxied == 1

\* order-service: the assign requests of a run, the drivers they name, the
\* roles the gateway forwards, and the ids they address: the stored order and
\* an id without a document
OsReqIds == {"q1", "q2", "q3"}
OsDrivers == {"d1", "d2"}
OsRoles == {"admin", "client"}
OsOrderIds == {"o1", "unknown"}
NoAssign == [pc |-> "none", role |-> "null", id |-> "null", driverId |-> "null",
             loaded |-> "null", res |-> 0]

\* the order.created message of the queue server.js subscribes
ShipMsgIds == {"s1"}

\* notification-service: the sockets that connect during a run, and the users
\* whose tokens they present
MaxNsSockets == 3
NsSocketIds == 1..MaxNsSockets
NsUsers == {"u1", "u2"}

NoObs == [op |-> "none"]

\* the messages of the queue a service subscribes with the shared client: one
\* with a JSON body and one without
MbMsgIds == {"x1", "xBad"}

VARIABLES
    pc,          \* position of main(): start, running (awaiting connectRabbit), beating
    wmsSocket,   \* the socket object wmsSocket refers to: null, connecting, connected, destroyed
    closePending,\* the socket is destroyed and its 'close' event is not yet emitted
    wmsTimers,   \* number of pending setTimeout(connectWms) timers
    wbuf,        \* lines written to the socket while it was connecting (queued by the stream)
    inflight,    \* lines written on the wire that the warehouse has not read yet
    peer,        \* the warehouse end of the current connection: none, alive, dead
    wmsUp,       \* the warehouse accepts connections
    wmsGot,      \* per order: receive_package commands the warehouse has read
    amqpCh,      \* the channel handle: null, open, stale (the handle of a closed channel)
    rabbitPc,    \* connectRabbit: the await it is at (connecting, exchange, queue, bind), idle, timer
    msgState,    \* per message: unsent, queued, acked
    wrote,       \* per message: how often sendLineToWms wrote its command
    wmsBuffer,   \* the data handler's line buffer
    orderToPackage, \* the correlation map, a sequence of <<orderId, packageId>> in insertion order
    obs,         \* what the callback that has just run did
    ackHist,     \* history: per order, the packages its acks carried and the latest of them
    topology,    \* what connectRabbit has declared on the current channel
    stream,      \* history: the line buffer at 'connect' and the bytes received since
    handled,     \* history: the messages handed to handleWmsMessage since 'connect'
    \* services/wms-adapter/server.js
    srvPhase,    \* the process: start, running, closing (shutdown handler awaiting), exited
    srvSock,     \* the socket wmsConnection refers to: none, connecting, connected, closing, closed
    srvOld,      \* sockets still open that wmsConnection no longer refers to
    isConnected, \* the flag isConnected
    reconnectTimer, \* the handle reconnectTimer: null, set, cleared (a cancelled timer's handle)
    srvTimers,   \* number of reconnect timeouts that are pending
    srvWmsUp,    \* the warehouse of server.js accepts connections
    requestCounter,  \* requestCounter
    pendingRequests, \* the ids that are keys of the map pendingRequests
    reqTimers,   \* the ids whose request timeout has not fired yet
    promise,     \* per id, the promise sendWMSCommand returned: none, pending, resolved,
                 \* rejected (by an error reply), timedout
    settleCalls, \* per id, how often resolve or reject was called
    srvTail,     \* the reply whose first bytes have arrived and whose rest is under way
    cmsMsg,      \* cms-adapter: per order.created message: unsent, queued, handling, acked
    cmsAnswer,   \* per message, how the SOAP call of its handler ended
    cmsLog,      \* what the handlers did on the channel, in order: publish, ack, nack
    cmsUuid,     \* the number of uuidv4() values drawn
    rosEnv,      \* ros-adapter: process.env, with up once the process has started
    rosMsg,      \* per order.created message: unsent, queued, drivers, optimizing, done
    rosFail,     \* per message, the error its handler caught, "none" without one
    rosLog,      \* the events the order.created handler published, in order
    rosCalls,    \* the requests sent to the remote optimizer
    rosReplies,  \* what the calls of POST /api/ros/optimize and /api/ros/eta returned
    gwLast,      \* api-gateway: the request served last and the response to it
    gwProxied,   \* the requests the gateway has forwarded downstream, in order
    nsSockets,   \* notification-service: per socket, its user and whether it is new, live or closed
    connectedUsers, \* the map connectedUsers: per user the socket stored, 0 without an entry
    nsLast,      \* the sendRealTimeNotification() call served last and what it did
    shipMsg,     \* wms-adapter/server.js: per order.created message: unsent, queued, handling, acked
    shipReq,     \* per message, the request its handler awaits, 0 without one
    osOrder,     \* order-service: the stored order: status, driverId, tracking entries
    osReq,       \* per assign request: where its handler is, the document it loaded, its response
    \* shared MessageBroker client
    mbConn,      \* this.connection: null, open, lost (closed by a failure), closed (by close())
    mbCh,        \* this.channel: null, open, lost, closed
    mbOpen,      \* connections the client has opened that are still open
    mbBrokerUp,  \* the broker accepts connections
    mbConsumers, \* consumers registered on the current channel
    mbMsg        \* per message of the subscribed queue: unsent, queued, handling, stale
                 \* (in its handler, on a channel that is gone), acked, dropped

vars == <<pc, wmsSocket, closePending, wmsTimers, wbuf, inflight, peer, wmsUp,
          wmsGot, amqpCh, rabbitPc, msgState, wrote,
          wmsBuffer, orderToPackage, obs, ackHist, topology, stream, handled,
          srvPhase, srvSock, srvOld, isConnected, reconnectTimer, srvTimers, srvWmsUp,
          requestCounter, pendingRequests, reqTimers, promise, settleCalls, srvTail,
          cmsMsg, cmsAnswer, cmsLog, cmsUuid,
          rosEnv, rosMsg, rosFail, rosLog, rosCalls, rosReplies, gwLast, gwProxied,
          nsSockets, connectedUsers, nsLast, shipMsg, shipReq, osOrder, osReq,
          mbConn, mbCh, mbOpen, mbBrokerUp, mbConsumers, mbMsg>>

wmsVars == <<wmsSocket, closePending, wmsTimers, wbuf, inflight, peer>>
envVars == <<wmsUp>>
rabbitVars == <<amqpCh, rabbitPc, topology>>
streamVars == <<stream, handled>>
reqVars == <<requestCounter, pendingRequests, reqTimers, promise, settleCalls>>
srvVars == <<srvPhase, srvSock, srvOld, isConnected, reconnectTimer, srvTimers, srvWmsUp, reqVars,
             srvTail>>
mbVars == <<mbConn, mbCh, mbOpen, mbBrokerUp, mbConsumers, mbMsg>>
cmsVars == <<cmsMsg, cmsAnswer, cmsLog, cmsUuid>>
\* the services that share nothing with the warehouse adapters and the broker client
rosVars == <<rosEnv, rosMsg, rosFail, rosLog, rosCalls, rosReplies>>
gwVars == <<gwLast, gwProxied>>
nsVars == <<nsSockets, connectedUsers, nsLast>>
\* the services that have a model of their own further down
shipVars == <<shipMsg, shipReq>>
osVars == <<osOrder, osReq>>
svcVars == <<nsVars, shipVars, osVars>>
otherVars == <<cmsVars, rosVars, gwVars, svcVars>>
\* the state of the other programs, and the history of the stream
extVars == <<streamVars, srvVars, mbVars, otherVars>>
\* the state of the line-protocol adapter (index.js)
adapterVars == <<pc, wmsSocket, closePending, wmsTimers, wbuf, inflight, peer, wmsUp,
                 wmsGot, rabbitVars, msgState, wrote, wmsBuffer, orderToPackage, ackHist>>
msgVars == <<msgState, wrote>>
inVars == <<wmsBuffer, orderToPackage, ackHist>>

\* ------------------------------------------------------------ the helpers

\* sendLineToWms' guard and result: false when there is no socket or it is
\* destroyed, true otherwise -- a socket that is still connecting accepts the
\* write and queues it
sendLineToWms(sock) == sock \notin {"null", "destroyed"}

\* the order.created consumer: the settle calls it makes on the channel and
\* the commands it writes, for a message body and the socket it finds
consumeHandler_nackInvalid(content, sock) ==
    IF ~content.json
    THEN [settle |-> <<"ack">>, cmds |-> <<>>]
    ELSE IF content.orderId = Null
    THEN [settle |-> <<"nack_requeue">>, cmds |-> <<>>]
    ELSE IF ~sendLineToWms(sock)
    THEN [settle |-> <<"nack_requeue">>, cmds |-> <<>>]
    ELSE [settle |-> <<"ack">>, cmds |-> <<ReceivePackage(content.orderId)>>]
consumeHandler(content, sock) ==
    IF ~content.json
    THEN [settle |-> <<"ack">>, cmds |-> <<>>]                  \* JSON.parse throws: catch acks
    ELSE IF content.orderId = Null
    THEN [settle |-> <<"ack">>, cmds |-> <<>>]                  \* missing orderId: ack and skip
    ELSE IF ~sendLineToWms(sock)
    THEN [settle |-> <<"nack_requeue">>, cmds |-> <<>>]         \* nack(msg, false, true)
    ELSE [settle |-> <<"ack">>, cmds |-> <<ReceivePackage(content.orderId)>>]

\* socket.write(line): queued while connecting, on the wire while connected
\* (and lost when the warehouse end is already gone)
SocketWrite(lines) ==
    IF wmsSocket = "connecting"
    THEN wbuf' = wbuf \o lines /\ UNCHANGED inflight
    ELSE /\ inflight' = IF peer = "alive" THEN inflight \o lines ELSE inflight
         /\ UNCHANGED wbuf


\* ---------------------------------------------------- correlation map (Map)

MapHas(map, o) == \E i \in 1..Len(map) : map[i][1] = o
MapGet(map, o) == map[CHOOSE i \in 1..Len(map) : map[i][1] = o][2]
\* Map.prototype.set: an existing key keeps its place, a new one goes last
MapSet(map, o, p) ==
    IF MapHas(map, o)
    THEN [i \in 1..Len(map) |-> IF map[i][1] = o THEN <<o, p>> ELSE map[i]]
    ELSE Append(map, <<o, p>>)
\* for (const [orderId, pkgId] of orderToPackage.entries()): first match wins
FindOrderByPackage(map, p) ==
    IF \E i \in 1..Len(map) : map[i][2] = p
    THEN map[CHOOSE i \in 1..Len(map) :
                /\ map[i][2] = p
                /\ \A j \in 1..Len(map) : map[j][2] = p => i <= j][1]
    ELSE Null

\* ------------------------------------------------------- event translation

RoutingKey(suffix) == [str |-> TRUE, segs |-> <<"wms", "package", suffix>>]
\* what a property read yields that is no string (an inherited member)
NotAString == [str |-> FALSE, segs |-> <<>>]
Undefined == [str |-> FALSE, segs |-> <<"undefined">>]

wmsTypeToRoutingKey ==
    [t \in KnownTypes |->
        CASE t = "ack" -> RoutingKey("ack")
          [] t = "package_received" -> RoutingKey("received")
          [] t = "package_ready" -> RoutingKey("ready")
          [] t = "package_scanned" -> RoutingKey("scanned")
          [] t = "package_loaded" -> RoutingKey("loaded")
          [] OTHER -> RoutingKey("error")]

\* wmsTypeToRoutingKey[t]: an own property, an inherited one, or undefined
TableLookup(t) ==
    IF t \in DOMAIN wmsTypeToRoutingKey THEN wmsTypeToRoutingKey[t]
    ELSE IF t \in InheritedNames THEN NotAString
    ELSE Undefined

\* const rk = wmsTypeToRoutingKey[t] || `wms.package.${t}`
RoutingKeyFor_allAck(t) ==
    IF TableLookup(t) # Undefined THEN RoutingKey("ack") ELSE RoutingKey(t)
RoutingKeyFor(t) ==
    IF TableLookup(t) # Undefined THEN TableLookup(t) ELSE RoutingKey(t)

\* publishRoutingKey: what reaches the exchange -- nothing without a channel,
\* nothing when publish throws, on a channel that is closed or on a routing
\* key that is no string
publishRoutingKey(ch, key, payload) ==
    IF ch = "null" THEN <<>>
    ELSE IF ch = "stale" THEN <<>>
    ELSE IF ~key.str THEN <<>>
    ELSE <<[key |-> key, payload |-> payload]>>

\* the ack branch's write to the map
AckWrite_insertOnly(map, msg) ==
    IF msg.packageId # Null /\ msg.orderId # Null /\ ~MapHas(map, msg.orderId)
    THEN MapSet(map, msg.orderId, msg.packageId)
    ELSE map
AckWrite(map, msg) ==
    IF msg.packageId # Null /\ msg.orderId # Null
    THEN MapSet(map, msg.orderId, msg.packageId)
    ELSE map

\* the fill-in of the ids of an event that is no ack
Enrich_noFill(map, payload) == payload
Enrich_noPackageFill(map, payload) ==
    IF payload.orderId = Null /\ payload.packageId # Null
    THEN [payload EXCEPT !.orderId = FindOrderByPackage(map, payload.packageId)]
    ELSE payload
Enrich(map, payload) ==
    LET withOrder ==
            IF payload.orderId = Null /\ payload.packageId # Null
            THEN [payload EXCEPT !.orderId = FindOrderByPackage(map, payload.packageId)]
            ELSE payload
    IN  IF withOrder.packageId = Null /\ withOrder.orderId # Null /\ MapHas(map, withOrder.orderId)
        THEN [withOrder EXCEPT !.packageId = MapGet(map, withOrder.orderId)]
        ELSE withOrder

\* handleWmsMessage(msg): the map afterwards and the calls of publishRoutingKey
handleWmsMessage_ackEnriched(map, msg) ==
    LET payload == [packageId |-> msg.packageId, orderId |-> msg.orderId, raw |-> msg]
    IN  IF msg.type = Null THEN [map |-> map, calls |-> <<>>]
        ELSE [map |-> IF msg.type = "ack" THEN AckWrite(map, msg) ELSE map,
              calls |-> <<[key |-> RoutingKeyFor(msg.type), payload |-> Enrich(map, payload)]>>]
handleWmsMessage(map, msg) ==
    LET payload == [packageId |-> msg.packageId, orderId |-> msg.orderId, raw |-> msg]
    IN  IF msg.type = Null THEN [map |-> map, calls |-> <<>>]
        ELSE IF msg.type = "ack"
        THEN [map |-> AckWrite(map, msg),
              calls |-> <<[key |-> wmsTypeToRoutingKey["ack"], payload |-> payload]>>]
        ELSE [map |-> map,
              calls |-> <<[key |-> RoutingKeyFor(msg.type), payload |-> Enrich(map, payload)]>>]

\* ------------------------------------------------------- the data handler

\* wmsBuffer.indexOf('\n'), 0 when there is none
IndexOfNL(buf) ==
    IF \E i \in 1..Len(buf) : buf[i] = NL
    THEN CHOOSE i \in 1..Len(buf) : buf[i] = NL /\ \A j \in 1..(i - 1) : buf[j] # NL
    ELSE 0

NoMsg == [type |-> Null, packageId |-> Null, orderId |-> Null]

\* JSON.parse(line): the event, when the line is the text of one
Parses(line) == Len(line) = 2 /\ line[1].k = "head" /\ line[2] = TailOf(line[1].e)
Parsed(line) == line[1].e

\* the while loop of the 'data' handler, run on the buffer with the chunk
\* appended: the rest of the buffer, the map, and per line what was done
RECURSIVE SplitLines(_, _, _, _)
SplitLines_dropRestOnBadLine(buf, map, ch, steps) ==
    LET idx == IndexOfNL(buf) IN
    IF idx = 0 THEN [buf |-> buf, map |-> map, steps |-> steps]
    ELSE LET line == SubSeq(buf, 1, idx - 1)
             rest == SubSeq(buf, idx + 1, Len(buf))
         IN  IF line = <<>> THEN SplitLines(rest, map, ch, steps)
             ELSE IF ~Parses(line)
             THEN [buf |-> <<>>, map |-> map,
                   steps |-> Append(steps, [parsed |-> FALSE, msg |-> NoMsg,
                                            calls |-> <<>>, sent |-> <<>>])]
             ELSE LET h == handleWmsMessage(map, Parsed(line))
                      sent == IF h.calls = <<>> THEN <<>>
                              ELSE publishRoutingKey(ch, h.calls[1].key, h.calls[1].payload)
                  IN  SplitLines(rest, h.map, ch,
                         Append(steps, [parsed |-> TRUE, msg |-> Parsed(line),
                                        calls |-> h.calls, sent |-> sent]))
SplitLines_dropPartial(buf, map, ch, steps) ==
    LET idx == IndexOfNL(buf) IN
    IF idx = 0 THEN [buf |-> <<>>, map |-> map, steps |-> steps]
    ELSE LET line == SubSeq(buf, 1, idx - 1)
             rest == SubSeq(buf, idx + 1, Len(buf))
         IN  IF line = <<>> THEN SplitLines(rest, map, ch, steps)
             ELSE IF ~Parses(line)
             THEN SplitLines(rest, map, ch,
                     Append(steps, [parsed |-> FALSE, msg |-> NoMsg, calls |-> <<>>, sent |-> <<>>]))
             ELSE LET h == handleWmsMessage(map, Parsed(line))
                      sent == IF h.calls = <<>> THEN <<>>
                              ELSE publishRoutingKey(ch, h.calls[1].key, h.calls[1].payload)
                  IN  SplitLines(rest, h.map, ch,
                         Append(steps, [parsed |-> TRUE, msg |-> Parsed(line),
                                        calls |-> h.calls, sent |-> sent]))
SplitLines_mapWhenPublished(buf, map, ch, steps) ==
    LET idx == IndexOfNL(buf) IN
    IF idx = 0 THEN [buf |-> buf, map |-> map, steps |-> steps]
    ELSE LET line == SubSeq(buf, 1, idx - 1)
             rest == SubSeq(buf, idx + 1, Len(buf))
         IN  IF line = <<>> THEN SplitLines(rest, map, ch, steps)
             ELSE IF ~Parses(line)
             THEN SplitLines(rest, map, ch,
                     Append(steps, [parsed |-> FALSE, msg |-> NoMsg, calls |-> <<>>, sent |-> <<>>]))
             ELSE LET h == handleWmsMessage(map, Parsed(line))
                      sent == IF h.calls = <<>> THEN <<>>
                              ELSE publishRoutingKey(ch, h.calls[1].key, h.calls[1].payload)
                  IN  SplitLines(rest, IF sent = <<>> THEN map ELSE h.map, ch,
                         Append(steps, [parsed |-> TRUE, msg |-> Parsed(line),
                                        calls |-> h.calls, sent |-> sent]))
SplitLines(buf, map, ch, steps) ==
    LET idx == IndexOfNL(buf) IN
    IF idx = 0 THEN [buf |-> buf, map |-> map, steps |-> steps]
    ELSE LET line == SubSeq(buf, 1, idx - 1)
             rest == SubSeq(buf, idx + 1, Len(buf))
         IN  IF line = <<>> THEN SplitLines(rest, map, ch, steps)
             ELSE IF ~Parses(line)
             THEN SplitLines(rest, map, ch,
                     Append(steps, [parsed |-> FALSE, msg |-> NoMsg, calls |-> <<>>, sent |-> <<>>]))
             ELSE LET h == handleWmsMessage(map, Parsed(line))
                      sent == IF h.calls = <<>> THEN <<>>
                              ELSE publishRoutingKey(ch, h.calls[1].key, h.calls[1].payload)
                  IN  SplitLines(rest, h.map, ch,
                         Append(steps, [parsed |-> TRUE, msg |-> Parsed(line),
                                        calls |-> h.calls, sent |-> sent]))

\* ------------------------------------------------------- connectRabbit

\* connectRabbit() from the channel on: the call it awaits next and what the
\* channel has declared, when the call awaited at step resolves -- the
\* exchange, then the queue, then its binding to order.created, and with the
\* binding in place the consumer
connectRabbitStep_consumeFirst(step, topo) ==
    CASE step = "exchange" -> [next |-> "queue", topology |-> topo \cup {"exchange"}]
      [] step = "queue" -> [next |-> "bind", topology |-> topo \cup {"queue", "consumer"}]
      [] step = "bind" -> [next |-> "idle", topology |-> topo \cup {"binding"}]
connectRabbitStep(step, topo) ==
    CASE step = "exchange" -> [next |-> "queue", topology |-> topo \cup {"exchange"}]
      [] step = "queue" -> [next |-> "bind", topology |-> topo \cup {"queue"}]
      [] step = "bind" -> [next |-> "idle", topology |-> topo \cup {"binding", "consumer"}]

\* ------------------------------------------------------------ the actions

\* the event loop runs one callback at a time, to completion: obs holds what
\* the callback that has just run did, until it returns
Idle == obs = NoObs

Init ==
    /\ pc = "start"
    /\ wmsSocket = "null"
    /\ closePending = FALSE
    /\ wmsTimers = 0
    /\ wbuf = <<>>
    /\ inflight = <<>>
    /\ peer = "none"
    /\ wmsUp \in BOOLEAN
    /\ wmsGot = [o \in {"o1", "o2"} |-> 0]
    /\ amqpCh = "null"
    /\ rabbitPc = "idle"
    /\ msgState = [m \in MsgIds |-> "unsent"]
    /\ wrote = [m \in MsgIds |-> 0]
    /\ wmsBuffer = <<>>
    /\ orderToPackage = <<>>
    /\ obs = NoObs
    /\ ackHist = [o \in Orders |-> [ever |-> {}, last |-> Null]]
    /\ topology = {}
    /\ stream = <<>>
    /\ handled = <<>>
    /\ srvPhase = "start"
    /\ srvSock = "none"
    /\ srvOld = 0
    /\ isConnected = FALSE
    /\ reconnectTimer = "null"
    /\ srvTimers = 0
    /\ srvWmsUp = TRUE
    /\ requestCounter = 0
    /\ pendingRequests = {}
    /\ reqTimers = {}
    /\ promise = [id \in RequestIds |-> "none"]
    /\ settleCalls = [id \in RequestIds |-> 0]
    /\ srvTail = NoTail
    /\ cmsMsg = [m \in CmsMsgIds |-> "unsent"]
    /\ cmsAnswer = [m \in CmsMsgIds |-> "none"]
    /\ cmsLog = <<>>
    /\ cmsUuid = 0
    /\ rosEnv = [up |-> FALSE, apiKey |-> FALSE, variant |-> "strict"]
    /\ rosMsg = [m \in RosMsgIds |-> "unsent"]
    /\ rosFail = [m \in RosMsgIds |-> "none"]
    /\ rosLog = <<>>
    /\ rosCalls = 0
    /\ rosReplies = {}
    /\ gwLast = [served |-> FALSE, route |-> Null, header |-> <<>>, limited |-> FALSE,
                 forwarded |-> FALSE, status |-> 0, error |-> Null]
    /\ gwProxied = <<>>
    /\ nsSockets = [s \in NsSocketIds |-> [user |-> Null, state |-> "new"]]
    /\ connectedUsers = [u \in NsUsers |-> 0]
    /\ nsLast = [served |-> FALSE, user |-> Null, live |-> FALSE, socket |-> 0, ret |-> FALSE]
    /\ osOrder = [status |-> "created", driverId |-> Null, tracking |-> <<"created">>,
                  assignedBy |-> <<>>]
    /\ osReq = [r \in OsReqIds |-> NoAssign]
    /\ shipMsg = [m \in ShipMsgIds |-> "unsent"]
    /\ shipReq = [m \in ShipMsgIds |-> 0]
    /\ mbConn = "null"
    /\ mbCh = "null"
    /\ mbOpen = 0
    /\ mbBrokerUp = TRUE
    /\ mbConsumers = 0
    /\ mbMsg = [m \in MbMsgIds |-> "unsent"]

\* connectWms(): a new socket replaces the old one; wmsBuffer is left as it is
connectWms ==
    /\ wmsSocket' = "connecting"
    /\ wbuf' = <<>>
    /\ peer' = "none"
    /\ inflight' = <<>>
    /\ closePending' = FALSE

\* main(): connectWms(), then connectRabbit() up to its first await
Main ==
    /\ pc = "start"
    /\ pc' = "running"
    /\ connectWms
    /\ rabbitPc' = "connecting"
    /\ Idle
    /\ obs' = NoObs
    /\ UNCHANGED <<extVars, wmsTimers, envVars, wmsGot, amqpCh, topology, msgVars, inVars>>

\* the 'connect' callback: the registration line is written; lines queued
\* while connecting are flushed by the stream ahead of it
connectCallback ==
    /\ wmsSocket = "connecting"
    /\ wmsUp
    /\ wmsSocket' = "connected"
    /\ peer' = "alive"
    /\ inflight' = wbuf \o <<RegisterLine>>
    /\ wbuf' = <<>>
    /\ Idle
    /\ obs' = NoObs
    /\ UNCHANGED <<srvVars, mbVars, otherVars, pc, closePending, wmsTimers, envVars, wmsGot, rabbitVars, msgVars, inVars>>
WmsConnected == connectCallback /\ UNCHANGED streamVars

\* the 'error' handler after a failed connection attempt: destroy()
WmsConnectError ==
    /\ wmsSocket = "connecting"
    /\ ~wmsUp
    /\ wmsSocket' = "destroyed"
    /\ closePending' = TRUE
    /\ wbuf' = <<>>
    /\ Idle
    /\ obs' = NoObs
    /\ UNCHANGED <<extVars, pc, wmsTimers, inflight, peer, envVars, wmsGot, rabbitVars, msgVars, inVars>>

\* the 'error' handler (or the peer's end) on an established connection
WmsSocketError ==
    /\ wmsSocket = "connected"
    /\ peer = "dead"
    /\ wmsSocket' = "destroyed"
    /\ closePending' = TRUE
    /\ Idle
    /\ obs' = NoObs
    /\ UNCHANGED <<extVars, pc, wmsTimers, wbuf, inflight, peer, envVars, wmsGot, rabbitVars, msgVars, inVars>>

\* the 'close' handler: setTimeout(connectWms, RECONNECT_WMS_MS)
WmsSocketClose ==
    /\ closePending
    /\ closePending' = FALSE
    /\ wmsTimers' = wmsTimers + 1
    /\ Idle
    /\ obs' = NoObs
    /\ UNCHANGED <<extVars, pc, wmsSocket, wbuf, inflight, peer, envVars, wmsGot, rabbitVars, msgVars, inVars>>

\* the reconnect timer fires: connectWms()
WmsReconnectTimer ==
    /\ wmsTimers > 0
    /\ wmsTimers' = wmsTimers - 1
    /\ connectWms
    /\ Idle
    /\ obs' = NoObs
    /\ UNCHANGED <<extVars, pc, envVars, wmsGot, rabbitVars, msgVars, inVars>>

\* the warehouse goes down: an established connection loses its peer and
\* whatever was still on the wire
EnvWmsDown ==
    /\ wmsUp
    /\ wmsUp' = FALSE
    /\ peer' = IF peer = "alive" THEN "dead" ELSE peer
    /\ inflight' = <<>>
    /\ Idle
    /\ obs' = NoObs
    /\ UNCHANGED <<extVars, pc, wmsSocket, closePending, wmsTimers, wbuf, wmsGot, rabbitVars, msgVars, inVars>>

EnvWmsUp ==
    /\ ~wmsUp
    /\ wmsUp' = TRUE
    /\ Idle
    /\ obs' = NoObs
    /\ UNCHANGED <<extVars, pc, wmsVars, wmsGot, rabbitVars, msgVars, inVars>>

\* the warehouse reads the next line from the connection
EnvWmsReads ==
    /\ inflight # <<>>
    /\ peer = "alive"
    /\ inflight' = Tail(inflight)
    /\ LET line == Head(inflight) IN
        IF line.type = "receive_package"
        THEN wmsGot' = [wmsGot EXCEPT ![line.orderId] = @ + 1]
        ELSE UNCHANGED wmsGot
    /\ Idle
    /\ obs' = NoObs
    /\ UNCHANGED <<extVars, pc, wmsSocket, closePending, wmsTimers, wbuf, peer, envVars, rabbitVars, msgVars, inVars>>

\* main() after 'await connectRabbit()': the first call has returned, with
\* the consumer installed or from its catch, and the heartbeat interval is set
mainResumes(p) == IF p = "running" THEN "beating" ELSE p

\* connectRabbit() after its first two awaits: the connection is open and
\* amqpCh is a fresh channel, on which nothing is declared yet
RabbitConnected ==
    /\ rabbitPc = "connecting"
    /\ rabbitPc' = "exchange"
    /\ amqpCh' = "open"
    /\ topology' = {}
    /\ Idle
    /\ obs' = NoObs
    /\ UNCHANGED <<extVars, pc, wmsVars, envVars, wmsGot, msgVars, inVars>>

\* the await of a setup call resolves and connectRabbit runs to its next await
RabbitSetupStep(step) ==
    /\ rabbitPc = step
    /\ amqpCh = "open"
    /\ LET r == connectRabbitStep(step, topology) IN
        /\ rabbitPc' = r.next
        /\ topology' = r.topology
        /\ pc' = IF r.next = "idle" THEN mainResumes(pc) ELSE pc
    /\ Idle
    /\ obs' = NoObs
    /\ UNCHANGED <<extVars, wmsVars, envVars, wmsGot, amqpCh, msgVars, inVars>>
RabbitExchangeAsserted == RabbitSetupStep("exchange")
RabbitQueueAsserted == RabbitSetupStep("queue")
\* bindQueue resolves; consume() registers the consumer and the 'error' and
\* 'close' handlers are installed
RabbitQueueBound == RabbitSetupStep("bind")

\* an await of connectRabbit() rejects: amqp.connect fails, or the connection
\* is lost during the setup, which leaves amqpCh referring to the closed
\* channel; the catch schedules a retry
RabbitConnectFails ==
    /\ rabbitPc \in {"connecting", "exchange", "queue", "bind"}
    /\ rabbitPc' = "timer"
    /\ amqpCh' = IF rabbitPc = "connecting" THEN amqpCh ELSE "stale"
    /\ topology' = IF rabbitPc = "connecting" THEN topology ELSE {}
    /\ pc' = mainResumes(pc)
    /\ Idle
    /\ obs' = NoObs
    /\ UNCHANGED <<extVars, wmsVars, envVars, wmsGot, msgVars, inVars>>

\* the connection's 'close' handler, installed when the setup is complete
RabbitClosed ==
    /\ rabbitPc = "idle"
    /\ amqpCh = "open"
    /\ amqpCh' = "null"
    /\ topology' = {}
    /\ rabbitPc' = "timer"
    /\ Idle
    /\ obs' = NoObs
    /\ UNCHANGED <<extVars, pc, wmsVars, envVars, wmsGot, msgVars, inVars>>

\* setTimeout(connectRabbit, RECONNECT_RABBIT_MS) fires
RabbitReconnectTimer ==
    /\ rabbitPc = "timer"
    /\ rabbitPc' = "connecting"
    /\ Idle
    /\ obs' = NoObs
    /\ UNCHANGED <<extVars, pc, wmsVars, envVars, wmsGot, amqpCh, topology, msgVars, inVars>>

\* the order service publishes order.created; the broker queues it
EnvPublishOrder(m) ==
    /\ msgState[m] = "unsent"
    /\ msgState' = [msgState EXCEPT ![m] = "queued"]
    /\ Idle
    /\ obs' = NoObs
    /\ UNCHANGED <<extVars, pc, wmsVars, envVars, wmsGot, rabbitVars, wrote, inVars>>

\* the broker delivers a queued message to the consumer callback
Consume(m) ==
    /\ Idle
    /\ amqpCh = "open"
    /\ "consumer" \in topology
    /\ msgState[m] = "queued"
    /\ LET r == consumeHandler(Content(m), wmsSocket) IN
        /\ SocketWrite(r.cmds)
        /\ wrote' = [wrote EXCEPT ![m] = @ + Len(r.cmds)]
        /\ msgState' = [msgState EXCEPT ![m] =
                            IF r.settle[Len(r.settle)] = "ack" THEN "acked" ELSE "queued"]
        /\ obs' = [op |-> "consume", msg |-> m, sock |-> wmsSocket,
                   settle |-> r.settle, cmds |-> r.cmds]
    /\ UNCHANGED <<extVars, pc, wmsSocket, closePending, wmsTimers, peer, envVars, wmsGot,
                   rabbitVars, inVars>>

\* history: the acks with both ids among the handled lines, in order
IsFullAck(msg) == msg.type = "ack" /\ msg.packageId # Null /\ msg.orderId # Null
RECURSIVE AcksRecorded(_, _)
AcksRecorded(h, steps) ==
    IF steps = <<>> THEN h
    ELSE LET msg == Head(steps).msg
             h1 == IF Head(steps).parsed /\ IsFullAck(msg)
                   THEN [h EXCEPT ![msg.orderId] =
                            [ever |-> @.ever \cup {msg.packageId}, last |-> msg.packageId]]
                   ELSE h
         IN  AcksRecorded(h1, Tail(steps))

\* the 'data' handler with the chunk the socket delivers
dataHandler(chunk) ==
    /\ Idle
    /\ wmsSocket = "connected"
    /\ peer = "alive"
    /\ LET r == SplitLines(wmsBuffer \o chunk, orderToPackage, amqpCh, <<>>) IN
        /\ Len(r.buf) <= MaxBuf
        /\ wmsBuffer' = r.buf
        /\ orderToPackage' = r.map
        /\ obs' = [op |-> "data", chunk |-> chunk, input |-> wmsBuffer \o chunk,
                   steps |-> r.steps]
        /\ ackHist' = AcksRecorded(ackHist, r.steps)
    /\ UNCHANGED <<srvVars, mbVars, otherVars, pc, wmsVars, envVars, wmsGot, rabbitVars, msgVars>>
WmsData(chunk) == dataHandler(chunk) /\ UNCHANGED streamVars

\* history of one connection: from 'connect' on, what the line buffer held
\* and every byte delivered since, and every message the data handler passed
\* to handleWmsMessage, with whether it was republished
StreamConnected ==
    /\ connectCallback
    /\ stream' = wmsBuffer
    /\ handled' = <<>>
RECURSIVE HandledIn(_)
HandledIn(steps) ==
    IF steps = <<>> THEN <<>>
    ELSE IF Head(steps).parsed
    THEN <<[msg |-> Head(steps).msg, republished |-> Head(steps).calls # <<>>]>>
            \o HandledIn(Tail(steps))
    ELSE HandledIn(Tail(steps))
StreamData(chunk) ==
    /\ Len(stream) + Len(chunk) <= MaxStream
    /\ dataHandler(chunk)
    /\ stream' = stream \o chunk
    /\ handled' = handled \o HandledIn(obs'.steps)

\* the callback returns to the event loop
HandlerReturns ==
    /\ ~Idle
    /\ obs' = NoObs
    /\ UNCHANGED <<extVars, pc, wmsVars, envVars, wmsGot, rabbitVars, msgVars, inVars>>

\* the heartbeat: what the status line says of the warehouse connection
StatusWms(sock) == IF sock # "null" /\ sock # "destroyed" THEN "connected" ELSE "disconnected"
Heartbeat ==
    /\ Idle
    /\ pc = "beating"
    /\ obs' = [op |-> "status", wms |-> StatusWms(wmsSocket)]
    /\ UNCHANGED <<extVars, pc, wmsVars, envVars, wmsGot, rabbitVars, msgVars, inVars>>

\* ------------------------------------------ server.js: the WMS connection

\* scheduleReconnect(): the handle and the number of pending timeouts after
\* the call -- nothing is scheduled while the handle is set
scheduleReconnect_unguarded(handle, timers) == [handle |-> "set", timers |-> timers + 1]
scheduleReconnect_dropped(handle, timers) == [handle |-> handle, timers |-> timers]
scheduleReconnect(handle, timers) ==
    IF handle # "null" THEN [handle |-> handle, timers |-> timers]
    ELSE [handle |-> "set", timers |-> timers + 1]

\* a socket that is neither closed nor about to emit 'close'
SrvLive(sock) == sock \in {"connecting", "connected", "broken"}
\* most sockets of server.js that are open at a time
MaxSockets == 2

\* initializeWMSConnection(): wmsConnection is a new socket, connecting; the
\* socket it referred to is not touched
initializeWMSConnection ==
    /\ srvSock' = "connecting"
    /\ srvOld' = srvOld + (IF SrvLive(srvSock) THEN 1 ELSE 0)
    /\ srvOld' + 1 <= MaxSockets

\* sendWMSCommand() when isConnected: the next id, its record in
\* pendingRequests, its timeout, and the write
sendWMSCommand ==
    LET id == requestCounter + 1 IN
    /\ requestCounter' = id
    /\ pendingRequests' = pendingRequests \cup {id}
    /\ reqTimers' = reqTimers \cup {id}
    /\ promise' = [promise EXCEPT ![id] = "pending"]
    /\ UNCHANGED settleCalls

\* startServer(): initializeWMSConnection(), then the broker
SrvStart ==
    /\ srvPhase = "start"
    /\ srvPhase' = "running"
    /\ initializeWMSConnection
    /\ UNCHANGED <<isConnected, reconnectTimer, srvTimers, srvWmsUp>>
    /\ UNCHANGED <<reqVars, srvTail, adapterVars, obs, streamVars, mbVars, otherVars>>

\* the connect callback: isConnected = true and the PING is sent (as long as
\* the model has request ids left)
SrvConnected ==
    /\ srvPhase \in {"running", "closing"}
    /\ srvSock = "connecting"
    /\ srvWmsUp
    /\ srvSock' = "connected"
    /\ isConnected' = TRUE
    /\ IF requestCounter < MaxRequests THEN sendWMSCommand ELSE UNCHANGED reqVars
    /\ srvTail' = NoTail
    /\ UNCHANGED <<srvPhase, srvOld, reconnectTimer, srvTimers, srvWmsUp>>
    /\ UNCHANGED <<adapterVars, obs, streamVars, mbVars, otherVars>>

\* the 'error' handler: the attempt was refused or the connection failed; the
\* socket's 'close' follows in the same tick
SrvSocketError ==
    /\ srvPhase \in {"running", "closing"}
    /\ srvSock = "broken" \/ (srvSock = "connecting" /\ ~srvWmsUp)
    /\ srvSock' = "closing"
    /\ isConnected' = FALSE
    /\ LET r == scheduleReconnect(reconnectTimer, srvTimers) IN
        /\ reconnectTimer' = r.handle
        /\ srvTimers' = r.timers
    /\ UNCHANGED <<srvPhase, srvOld, srvWmsUp>>
    /\ UNCHANGED <<reqVars, srvTail, adapterVars, obs, streamVars, mbVars, otherVars>>

\* the warehouse ends the connection without an error: only 'close' follows
SrvSocketEnds ==
    /\ srvPhase \in {"running", "closing"}
    /\ srvSock = "broken"
    /\ srvSock' = "closing"
    /\ UNCHANGED <<srvPhase, srvOld, isConnected, reconnectTimer, srvTimers, srvWmsUp>>
    /\ UNCHANGED <<reqVars, srvTail, adapterVars, obs, streamVars, mbVars, otherVars>>

\* the socket's idle timeout: destroy()
SrvSocketTimeout ==
    /\ srvPhase \in {"running", "closing"}
    /\ SrvLive(srvSock)
    /\ srvSock' = "closing"
    /\ UNCHANGED <<srvPhase, srvOld, isConnected, reconnectTimer, srvTimers, srvWmsUp>>
    /\ UNCHANGED <<reqVars, srvTail, adapterVars, obs, streamVars, mbVars, otherVars>>

\* the 'close' handler
SrvSocketClose ==
    /\ srvPhase \in {"running", "closing"}
    /\ srvSock = "closing"
    /\ srvSock' = "closed"
    /\ isConnected' = FALSE
    /\ LET r == scheduleReconnect(reconnectTimer, srvTimers) IN
        /\ reconnectTimer' = r.handle
        /\ srvTimers' = r.timers
    /\ UNCHANGED <<srvPhase, srvOld, srvWmsUp>>
    /\ UNCHANGED <<reqVars, srvTail, adapterVars, obs, streamVars, mbVars, otherVars>>

\* a reconnect timeout fires; a 'close' that is due is emitted before any
\* timeout set by the same failure can fire
SrvReconnectTimer ==
    /\ srvPhase \in {"running", "closing"}
    /\ srvTimers > 0
    /\ srvSock # "closing"
    /\ srvTimers' = srvTimers - 1
    /\ reconnectTimer' = "null"
    /\ initializeWMSConnection
    /\ UNCHANGED <<srvPhase, isConnected, srvWmsUp>>
    /\ UNCHANGED <<reqVars, srvTail, adapterVars, obs, streamVars, mbVars, otherVars>>

\* the SIGTERM / SIGINT handler up to its await of messageBroker.close()
SrvShutdown ==
    /\ srvPhase = "running"
    /\ srvPhase' = "closing"
    /\ srvSock' = IF SrvLive(srvSock) THEN "closing" ELSE srvSock
    /\ srvTimers' = IF reconnectTimer = "set" /\ srvTimers > 0 THEN srvTimers - 1 ELSE srvTimers
    /\ reconnectTimer' = IF reconnectTimer = "set" THEN "cleared" ELSE reconnectTimer
    /\ UNCHANGED <<srvOld, isConnected, srvWmsUp>>
    /\ UNCHANGED <<reqVars, srvTail, adapterVars, obs, streamVars, mbVars, otherVars>>

\* messageBroker.close() has returned: process.exit(0)
SrvExit ==
    /\ srvPhase = "closing"
    /\ srvPhase' = "exited"
    /\ srvSock' = "closed"
    /\ srvOld' = 0
    /\ srvTimers' = 0
    /\ UNCHANGED <<isConnected, reconnectTimer, srvWmsUp>>
    /\ UNCHANGED <<reqVars, srvTail, adapterVars, obs, streamVars, mbVars, otherVars>>

\* the warehouse of server.js goes down and comes back
EnvSrvWmsDown ==
    /\ srvWmsUp
    /\ srvWmsUp' = FALSE
    /\ srvSock' = IF srvSock = "connected" THEN "broken" ELSE srvSock
    /\ UNCHANGED <<srvPhase, srvOld, isConnected, reconnectTimer, srvTimers>>
    /\ UNCHANGED <<reqVars, srvTail, adapterVars, obs, streamVars, mbVars, otherVars>>
EnvSrvWmsUp ==
    /\ ~srvWmsUp
    /\ srvWmsUp' = TRUE
    /\ UNCHANGED <<srvPhase, srvSock, srvOld, isConnected, reconnectTimer, srvTimers>>
    /\ UNCHANGED <<reqVars, srvTail, adapterVars, obs, streamVars, mbVars, otherVars>>

\* a route or an event handler sends a command
SrvSend ==
    /\ srvPhase \in {"running", "closing"}
    /\ isConnected
    /\ requestCounter < MaxRequests
    /\ sendWMSCommand
    /\ UNCHANGED <<srvPhase, srvSock, srvOld, isConnected, reconnectTimer, srvTimers, srvWmsUp, srvTail>>
    /\ UNCHANGED <<adapterVars, obs, streamVars, mbVars, otherVars>>

\* handleWMSResponse on one line 'id|status|data': the record is looked up
\* and deleted first; then resolve (after JSON.parse of the data) or reject
handleWMSResponse(pending, id, status, json) ==
    IF id \notin pending THEN [pending |-> pending, settle |-> "none"]
    ELSE IF status # "OK" THEN [pending |-> pending \ {id}, settle |-> "rejected"]
    ELSE IF json THEN [pending |-> pending \ {id}, settle |-> "resolved"]
    ELSE [pending |-> pending \ {id}, settle |-> "none"]   \* JSON.parse throws into the catch

\* the 'data' handler with one reply line
SrvReply(id, status, json) ==
    /\ srvPhase \in {"running", "closing"}
    /\ srvSock = "connected"
    /\ srvTail = NoTail
    /\ LET r == handleWMSResponse(pendingRequests, id, status, json) IN
        /\ pendingRequests' = r.pending
        /\ promise' = IF r.settle = "none" THEN promise ELSE [promise EXCEPT ![id] = r.settle]
        /\ settleCalls' = IF r.settle = "none" THEN settleCalls
                          ELSE [settleCalls EXCEPT ![id] = @ + 1]
    /\ UNCHANGED <<requestCounter, reqTimers, srvTail>>
    /\ UNCHANGED <<srvPhase, srvSock, srvOld, isConnected, reconnectTimer, srvTimers, srvWmsUp>>
    /\ UNCHANGED <<adapterVars, obs, streamVars, mbVars, otherVars>>

\* handleWMSResponse(rawData): rawData.trim().split('\n'), each piece handled
\* as a line whether or not the chunk ended it
RECURSIVE handleWMSResponses(_, _)
handleWMSResponses(pending, lines) ==
    IF lines = <<>> THEN [pending |-> pending, settled |-> <<>>]
    ELSE LET l == Head(lines)
             r == handleWMSResponse(pending, l.id, l.status, l.json)
             rest == handleWMSResponses(r.pending, Tail(lines))
         IN  [pending |-> rest.pending,
              settled |-> (IF r.settle = "none" THEN <<>> ELSE <<[id |-> l.id, settle |-> r.settle]>>)
                              \o rest.settled]

\* what the pieces of a chunk are to line.split('|', 3) and parseInt: a
\* complete reply; the first bytes of a reply, cut in its data or right
\* after its id; the rest of a reply, which starts with no id
ReplyLine(l) == [id |-> l.id, status |-> l.status, json |-> TRUE]
ReplyHead(l, cut) ==
    IF cut = "data" THEN [id |-> l.id, status |-> l.status, json |-> FALSE]
    ELSE [id |-> l.id, status |-> "undefined", json |-> TRUE]
ReplyRest == [id |-> 0, status |-> "undefined", json |-> TRUE]

\* the promises after the settle calls of one chunk
RECURSIVE Settled(_, _)
Settled(f, settled) ==
    IF settled = <<>> THEN f
    ELSE Settled([f EXCEPT ![Head(settled).id] = Head(settled).settle], Tail(settled))
RECURSIVE SettleCounted(_, _)
SettleCounted(f, settled) ==
    IF settled = <<>> THEN f
    ELSE SettleCounted([f EXCEPT ![Head(settled).id] = @ + 1], Tail(settled))

\* the 'data' handler with a chunk
srvData(lines) ==
    /\ srvPhase \in {"running", "closing"}
    /\ srvSock = "connected"
    /\ LET r == handleWMSResponses(pendingRequests, lines) IN
        /\ pendingRequests' = r.pending
        /\ promise' = Settled(promise, r.settled)
        /\ settleCalls' = SettleCounted(settleCalls, r.settled)
    /\ UNCHANGED <<requestCounter, reqTimers>>
    /\ UNCHANGED <<srvPhase, srvSock, srvOld, isConnected, reconnectTimer, srvTimers, srvWmsUp>>
    /\ UNCHANGED <<adapterVars, obs, streamVars, mbVars, otherVars>>

\* two replies arrive in one chunk
SrvReplies(l1, l2) ==
    /\ srvTail = NoTail
    /\ l1.id # l2.id
    /\ srvData(<<ReplyLine(l1), ReplyLine(l2)>>)
    /\ UNCHANGED srvTail
\* a chunk ends inside a reply
SrvReplyHead(l, cut) ==
    /\ srvTail = NoTail
    /\ srvData(<<ReplyHead(l, cut)>>)
    /\ srvTail' = l
\* the next chunk brings the rest of that reply
SrvReplyTail ==
    /\ srvTail # NoTail
    /\ srvData(<<ReplyRest>>)
    /\ srvTail' = NoTail

\* the timeout callback of a request: the record, if still there, is deleted
\* and the caller rejected
requestTimeout_dropsAll(pending, id) == IF id \in pending THEN {} ELSE pending
requestTimeout(pending, id) == pending \ {id}
SrvRequestTimeout(id) ==
    /\ srvPhase \in {"running", "closing"}
    /\ id \in reqTimers
    /\ reqTimers' = reqTimers \ {id}
    /\ pendingRequests' = requestTimeout(pendingRequests, id)
    /\ IF id \in pendingRequests
       THEN /\ promise' = [promise EXCEPT ![id] = "timedout"]
            /\ settleCalls' = [settleCalls EXCEPT ![id] = @ + 1]
       ELSE UNCHANGED <<promise, settleCalls>>
    /\ UNCHANGED <<requestCounter, srvTail>>
    /\ UNCHANGED <<srvPhase, srvSock, srvOld, isConnected, reconnectTimer, srvTimers, srvWmsUp>>
    /\ UNCHANGED <<adapterVars, obs, streamVars, mbVars, otherVars>>

SrvLifecycle ==
    \/ SrvStart
    \/ SrvConnected
    \/ SrvSocketError
    \/ SrvSocketEnds
    \/ SrvSocketTimeout
    \/ SrvSocketClose
    \/ SrvReconnectTimer
    \/ SrvShutdown
    \/ SrvExit
    \/ EnvSrvWmsDown
    \/ EnvSrvWmsUp

\* ------------------------------------- the shared MessageBroker client

\* most connections the client holds open, most consumers on its channel
MaxConns == 2
MaxConsumers == 2
MbVarsOfServices == <<adapterVars, streamVars, srvVars, otherVars>>

\* a delivery whose channel goes away is outstanding on a channel that can no
\* longer settle it
Orphaned(msgs) == [m \in MbMsgIds |-> IF msgs[m] = "handling" THEN "stale" ELSE msgs[m]]

\* connect(): amqp.connect, createChannel and the assertion of the exchanges
\* and queues; there is no test of this.connection before
connect(up) ==
    IF up THEN [outcome |-> "resolved", conn |-> "open", ch |-> "open", opened |-> 1]
    ELSE [outcome |-> "rejected", conn |-> mbConn, ch |-> mbCh, opened |-> 0]
MbConnect ==
    /\ Idle
    /\ LET r == connect(mbBrokerUp) IN
        /\ mbOpen + r.opened <= MaxConns
        /\ mbConn' = r.conn
        /\ mbCh' = r.ch
        /\ mbOpen' = mbOpen + r.opened
        /\ mbConsumers' = IF r.opened = 1 THEN 0 ELSE mbConsumers
        /\ mbMsg' = IF r.opened = 1 THEN Orphaned(mbMsg) ELSE mbMsg
        /\ obs' = [op |-> "mb.connect", outcome |-> r.outcome,
                   wasConnected |-> mbConn = "open", opened |-> r.opened]
    /\ UNCHANGED <<mbBrokerUp, MbVarsOfServices>>

\* publish(): throws without a channel; channel.publish throws on a channel
\* that is closed, and the catch throws again
publish(ch) ==
    IF ch = "null" THEN "rejected"
    ELSE IF ch # "open" THEN "rejected"
    ELSE "published"
MbPublish ==
    /\ Idle
    /\ obs' = [op |-> "mb.publish", ch |-> mbCh, outcome |-> publish(mbCh)]
    /\ UNCHANGED <<mbVars, MbVarsOfServices>>

\* subscribe(): assertQueue and consume on the channel
MbSubscribe ==
    /\ Idle
    /\ IF mbCh = "open"
       THEN /\ mbConsumers < MaxConsumers
            /\ mbConsumers' = mbConsumers + 1
            /\ obs' = [op |-> "mb.subscribe", outcome |-> "resolved"]
       ELSE /\ UNCHANGED mbConsumers
            /\ obs' = [op |-> "mb.subscribe", outcome |-> "rejected"]
    /\ UNCHANGED <<mbConn, mbCh, mbOpen, mbBrokerUp, mbMsg, MbVarsOfServices>>

\* bindQueue()
MbBindQueue ==
    /\ Idle
    /\ obs' = [op |-> "mb.bindQueue",
               outcome |-> IF mbCh = "open" THEN "resolved" ELSE "rejected"]
    /\ UNCHANGED <<mbVars, MbVarsOfServices>>

\* close(): channel.close() and then connection.close(); closing a channel
\* that is closed already throws into the catch, which skips the connection;
\* the handles are kept
MbClose ==
    /\ Idle
    /\ IF mbCh = "open"
       THEN /\ mbCh' = "closed"
            /\ mbConsumers' = 0
            /\ mbMsg' = Orphaned(mbMsg)
            /\ mbConn' = IF mbConn = "open" THEN "closed" ELSE mbConn
            /\ mbOpen' = IF mbConn = "open" THEN mbOpen - 1 ELSE mbOpen
       ELSE IF mbCh = "null" /\ mbConn = "open"
       THEN /\ mbConn' = "closed"
            /\ mbOpen' = mbOpen - 1
            /\ UNCHANGED <<mbCh, mbConsumers, mbMsg>>
       ELSE UNCHANGED <<mbCh, mbConsumers, mbMsg, mbConn, mbOpen>>
    /\ obs' = [op |-> "mb.close", outcome |-> "resolved"]
    /\ UNCHANGED <<mbBrokerUp, MbVarsOfServices>>

\* the broker goes down: every connection of the client is closed; its
\* 'error' and 'close' handlers log and change nothing
EnvMbBrokerDown ==
    /\ Idle
    /\ mbBrokerUp
    /\ mbBrokerUp' = FALSE
    /\ mbOpen' = 0
    /\ mbConn' = IF mbConn = "open" THEN "lost" ELSE mbConn
    /\ mbCh' = IF mbCh = "open" THEN "lost" ELSE mbCh
    /\ mbConsumers' = 0
    /\ mbMsg' = Orphaned(mbMsg)
    /\ obs' = NoObs
    /\ UNCHANGED MbVarsOfServices
EnvMbBrokerUp ==
    /\ Idle
    /\ ~mbBrokerUp
    /\ mbBrokerUp' = TRUE
    /\ obs' = NoObs
    /\ UNCHANGED <<mbConn, mbCh, mbOpen, mbConsumers, mbMsg, MbVarsOfServices>>

\* a message reaches the subscribed queue
EnvMbQueues(m) ==
    /\ Idle
    /\ mbBrokerUp
    /\ mbMsg[m] = "unsent"
    /\ mbMsg' = [mbMsg EXCEPT ![m] = "queued"]
    /\ obs' = NoObs
    /\ UNCHANGED <<mbConn, mbCh, mbOpen, mbBrokerUp, mbConsumers, MbVarsOfServices>>

\* the consumer callback of subscribe(), from the end of the handler on: the
\* settle calls that take effect, for a body that parsed or not, a handler
\* that resolved or threw, and a channel that is still the open one or not
subscribeSettle_requeue(json, ok, live) ==
    IF ~live THEN <<>>
    ELSE IF json /\ ok THEN <<"ack">>
    ELSE <<"nack_requeue">>
subscribeSettle(json, ok, live) ==
    IF ~live THEN <<>>                      \* ack throws, and nack in the catch throws
    ELSE IF json /\ ok THEN <<"ack">>
    ELSE <<"nack_drop">>                    \* nack(msg, false, false)
MbJson(m) == m # "xBad"
AfterSettle(settle) ==
    IF settle = <<"ack">> THEN "acked"
    ELSE IF settle = <<"nack_drop">> THEN "dropped"
    ELSE "queued"

\* the broker delivers a message to the consumer callback: JSON.parse and the
\* call of the handler, which is awaited; a body that does not parse is
\* settled at once
MbDeliver(m) ==
    /\ Idle
    /\ mbCh = "open"
    /\ mbConsumers > 0
    /\ mbMsg[m] = "queued"
    /\ IF MbJson(m)
       THEN /\ mbMsg' = [mbMsg EXCEPT ![m] = "handling"]
            /\ obs' = [op |-> "mb.deliver", msg |-> m]
       ELSE LET settle == subscribeSettle(FALSE, FALSE, TRUE) IN
            /\ mbMsg' = [mbMsg EXCEPT ![m] = AfterSettle(settle)]
            /\ obs' = [op |-> "mb.settle", msg |-> m, json |-> FALSE, ok |-> FALSE,
                       live |-> TRUE, settle |-> settle]
    /\ UNCHANGED <<mbConn, mbCh, mbOpen, mbBrokerUp, mbConsumers, MbVarsOfServices>>

\* the handler's promise settles and the callback acks or nacks
MbHandlerDone(m, ok) ==
    /\ Idle
    /\ mbMsg[m] \in {"handling", "stale"}
    /\ LET live == mbMsg[m] = "handling"
           settle == subscribeSettle(TRUE, ok, live)
       IN  /\ mbMsg' = [mbMsg EXCEPT ![m] = AfterSettle(settle)]
           /\ obs' = [op |-> "mb.settle", msg |-> m, json |-> TRUE, ok |-> ok,
                      live |-> live, settle |-> settle]
    /\ UNCHANGED <<mbConn, mbCh, mbOpen, mbBrokerUp, mbConsumers, MbVarsOfServices>>

NextBroker ==
    \/ HandlerReturns
    \/ MbConnect
    \/ MbPublish
    \/ MbSubscribe
    \/ MbBindQueue
    \/ MbClose
    \/ EnvMbBrokerDown
    \/ EnvMbBrokerUp
    \/ \E m \in MbMsgIds : EnvMbQueues(m)
    \/ \E m \in MbMsgIds : MbDeliver(m)
    \/ \E m \in MbMsgIds, ok \in BOOLEAN : MbHandlerDone(m, ok)

\* a service using the shared client
SpecBroker == Init /\ [][NextBroker]_vars

\* the event loop runs the callbacks that are due and the broker delivers
\* what is queued; the client itself sets no timer
BrokerFairness ==
    /\ SF_vars(HandlerReturns)
    /\ \A m \in MbMsgIds : SF_vars(MbDeliver(m))

LiveSpecBroker == SpecBroker /\ BrokerFairness

WmsLifecycle ==
    \/ Main
    \/ WmsConnected
    \/ WmsConnectError
    \/ WmsSocketError
    \/ WmsSocketClose
    \/ WmsReconnectTimer
    \/ EnvWmsDown
    \/ EnvWmsUp

RabbitLifecycle ==
    \/ RabbitConnected
    \/ RabbitExchangeAsserted
    \/ RabbitQueueAsserted
    \/ RabbitQueueBound
    \/ RabbitConnectFails
    \/ RabbitClosed
    \/ RabbitReconnectTimer

NextOut ==
    \/ HandlerReturns
    \/ WmsLifecycle
    \/ RabbitLifecycle
    \/ EnvWmsReads
    \/ \E m \in MsgIds : EnvPublishOrder(m)
    \/ \E m \in MsgIds : Consume(m)

\* ---- cms-adapter/index.js ----
cmsRest == <<adapterVars, obs, streamVars, srvVars, mbVars, rosVars, gwVars, svcVars>>

\* order-service publishes order.created; the broker routes it to cms-adapter-q
EnvCmsQueues(m) ==
    /\ cmsMsg[m] = "unsent"
    /\ cmsMsg' = [cmsMsg EXCEPT ![m] = "queued"]
    /\ UNCHANGED <<cmsAnswer, cmsLog, cmsUuid, cmsRest>>

\* callCMSCreateOrder: the parsed response, or the error it rethrows
callCMSCreateOrder(order, answer) ==
    IF answer \in {"true", "false"}
    THEN [threw |-> FALSE, success |-> (answer = "true"), cmsOrderId |-> CmsOrderId(order)]
    ELSE [threw |-> TRUE]

\* the payload published on success
cmsEvent_staleToken(order, resp, uuid) ==
    [key |-> "cms.order.created", cmsOrderId |-> resp.cmsOrderId,
     localOrderId |-> order.orderId, clientId |-> order.clientId,
     status |-> "cms_created", correlationId |-> 1]
cmsEvent(order, resp, uuid) ==
    [key |-> "cms.order.created", cmsOrderId |-> resp.cmsOrderId,
     localOrderId |-> order.orderId, clientId |-> order.clientId,
     status |-> "cms_created", correlationId |-> uuid]

\* what the handler does on the channel once the SOAP call has ended: the
\* publish in the try block if the response says success, the ack in finally
cmsSettle_nackOnFailure(m, r, uuid) ==
    IF ~r.threw /\ r.success
    THEN <<[op |-> "publish", msg |-> m, event |-> cmsEvent(CmsOrder(m), r, uuid)],
           [op |-> "ack", msg |-> m]>>
    ELSE <<[op |-> "nack", msg |-> m]>>
cmsSettle(m, r, uuid) ==
    IF ~r.threw /\ r.success
    THEN <<[op |-> "publish", msg |-> m, event |-> cmsEvent(CmsOrder(m), r, uuid)],
           [op |-> "ack", msg |-> m]>>
    ELSE <<[op |-> "ack", msg |-> m]>>

\* the consume callback up to its await: JSON.parse, which throws into the
\* catch (then finally acks), or the SOAP request is sent
CmsDeliver(m) ==
    /\ cmsMsg[m] = "queued"
    /\ IF CmsParses(m)
       THEN /\ cmsMsg' = [cmsMsg EXCEPT ![m] = "handling"]
            /\ UNCHANGED cmsLog
       ELSE /\ cmsMsg' = [cmsMsg EXCEPT ![m] = "acked"]
            /\ cmsLog' = cmsLog \o cmsSettle(m, [threw |-> TRUE], cmsUuid)
    /\ UNCHANGED <<cmsAnswer, cmsUuid, cmsRest>>

\* the callback resumes when the SOAP call has ended
CmsAnswered(m, answer) ==
    /\ cmsMsg[m] = "handling"
    /\ LET r == callCMSCreateOrder(CmsOrder(m), answer)
           fresh == IF ~r.threw /\ r.success THEN cmsUuid + 1 ELSE cmsUuid IN
        /\ cmsUuid' = fresh
        /\ cmsLog' = cmsLog \o cmsSettle(m, r, fresh)
    /\ cmsAnswer' = [cmsAnswer EXCEPT ![m] = answer]
    /\ cmsMsg' = [cmsMsg EXCEPT ![m] = "acked"]
    /\ UNCHANGED cmsRest

NextCms ==
    \/ \E m \in CmsMsgIds : EnvCmsQueues(m)
    \/ \E m \in CmsMsgIds : CmsDeliver(m)
    \/ \E m \in CmsMsgIds, answer \in CmsAnswers : CmsAnswered(m, answer)

SpecCms == Init /\ [][NextCms]_vars

\* ---- ros-adapter/server.js ----
rosRest == <<adapterVars, obs, streamVars, srvVars, mbVars, cmsVars, gwVars, svcVars>>

\* the process starts with its environment
RosStart(env) ==
    /\ ~rosEnv.up
    /\ rosEnv' = env
    /\ UNCHANGED <<rosMsg, rosFail, rosLog, rosCalls, rosReplies, rosRest>>

\* ROSAdapter.optimizeRoute and ROSAdapter.calculateETA: without ROS_API_KEY
\* they throw before any request; otherwise the one POST decides
RosThrows(requests, error) ==
    [requests |-> requests, threw |-> TRUE, error |-> error, provider |-> Null, distance |-> 0]
RosReturns(requests, provider, distance) ==
    [requests |-> requests, threw |-> FALSE, error |-> Null, provider |-> provider,
     distance |-> distance]
optimizeRoute(env, answer) ==
    IF ~env.apiKey THEN RosThrows(0, "ROS API not configured")
    ELSE IF answer = "success" THEN RosReturns(1, "external-ros", 0)
    ELSE IF answer = "nosuccess" THEN RosThrows(1, "ROS optimization failed")
    ELSE RosThrows(1, "http error")
calculateETA(env, origin, destination, answer, remote) ==
    IF ~env.apiKey THEN RosThrows(0, "ROS API not configured")
    ELSE IF answer = "success" THEN RosReturns(1, "external-ros", remote)
    ELSE IF answer = "nosuccess" THEN RosThrows(1, "ROS ETA calculation failed")
    ELSE RosThrows(1, "http error")

\* POST /api/ros/optimize and POST /api/ros/eta
RosHttpOptimize(answer) ==
    /\ rosEnv.up
    /\ LET r == optimizeRoute(rosEnv, answer) IN
        /\ rosCalls + r.requests <= MaxCalls
        /\ rosCalls' = rosCalls + r.requests
        /\ rosReplies' = rosReplies \cup {[op |-> "optimize", env |-> rosEnv, result |-> r]}
    /\ UNCHANGED <<rosEnv, rosMsg, rosFail, rosLog, rosRest>>
RosHttpEta(origin, destination, answer, remote) ==
    /\ rosEnv.up
    /\ LET r == calculateETA(rosEnv, origin, destination, answer, remote) IN
        /\ rosCalls + r.requests <= MaxCalls
        /\ rosCalls' = rosCalls + r.requests
        /\ rosReplies' = rosReplies \cup
               {[op |-> "eta", env |-> rosEnv, origin |-> origin, destination |-> destination,
                 result |-> r]}
    /\ UNCHANGED <<rosEnv, rosMsg, rosFail, rosLog, rosRest>>

\* order-service publishes order.created; the broker routes it to order.created.ros
EnvRosQueues(m) ==
    /\ rosMsg[m] = "unsent"
    /\ rosMsg' = [rosMsg EXCEPT ![m] = "queued"]
    /\ UNCHANGED <<rosEnv, rosFail, rosLog, rosCalls, rosReplies, rosRest>>

\* the events of the handler
rosOptimized(data) ==
    [key |-> "route.optimized", orderId |-> data.orderId, correlationId |-> data.correlationId]
rosFailed_noCorrelation(data, error) ==
    [key |-> "route.optimization.failed", orderId |-> data.orderId, error |-> error,
     correlationId |-> Null]
rosFailed(data, error) ==
    [key |-> "route.optimization.failed", orderId |-> data.orderId, error |-> error,
     correlationId |-> data.correlationId]

\* the catch block of the handler
rosCatch_silent(m, error) ==
    /\ rosMsg' = [rosMsg EXCEPT ![m] = "done"]
    /\ rosFail' = [rosFail EXCEPT ![m] = error]
    /\ rosLog' = rosLog
rosCatch(m, error) ==
    /\ rosMsg' = [rosMsg EXCEPT ![m] = "done"]
    /\ rosFail' = [rosFail EXCEPT ![m] = error]
    /\ rosLog' = Append(rosLog, rosFailed(RosData(m), error))

\* the handler up to its first await: the pickup coordinates are required,
\* then the driver lookup is sent
RosDeliver(m) ==
    /\ rosEnv.up
    /\ rosMsg[m] = "queued"
    /\ IF RosData(m).hasPickup
       THEN /\ rosMsg' = [rosMsg EXCEPT ![m] = "drivers"]
            /\ UNCHANGED <<rosFail, rosLog>>
       ELSE rosCatch(m, "Pickup coordinates are required for route optimization")
    /\ UNCHANGED <<rosEnv, rosCalls, rosReplies, rosRest>>

\* the driver lookup has ended; with drivers, optimizeRoute is called, which
\* throws at once without a credential and sends its POST otherwise
RosDrivers(m, answer) ==
    /\ rosMsg[m] = "drivers"
    /\ IF answer = "error"
       THEN rosCatch(m, "Failed to fetch nearby drivers for route optimization")
            /\ UNCHANGED rosCalls
       ELSE IF answer = "nodrivers"
       THEN rosCatch(m, "No available drivers for route optimization")
            /\ UNCHANGED rosCalls
       ELSE IF ~rosEnv.apiKey
       THEN rosCatch(m, optimizeRoute(rosEnv, "success").error)
            /\ UNCHANGED rosCalls
       ELSE /\ rosCalls < MaxCalls
            /\ rosCalls' = rosCalls + 1
            /\ rosMsg' = [rosMsg EXCEPT ![m] = "optimizing"]
            /\ UNCHANGED <<rosFail, rosLog>>
    /\ UNCHANGED <<rosEnv, rosReplies, rosRest>>

\* the POST /optimize has ended
RosOptimized(m, answer) ==
    /\ rosMsg[m] = "optimizing"
    /\ LET r == optimizeRoute(rosEnv, answer) IN
        IF r.threw
        THEN rosCatch(m, r.error)
        ELSE /\ rosMsg' = [rosMsg EXCEPT ![m] = "done"]
             /\ rosLog' = Append(rosLog, rosOptimized(RosData(m)))
             /\ UNCHANGED rosFail
    /\ UNCHANGED <<rosEnv, rosCalls, rosReplies, rosRest>>

NextRos ==
    \/ \E env \in RosEnvs : RosStart(env)
    \/ \E answer \in RosAnswers : RosHttpOptimize(answer)
    \/ \E origin \in Coords, destination \in Coords, answer \in RosAnswers,
          remote \in RemoteDistances : RosHttpEta(origin, destination, answer, remote)
    \/ \E m \in RosMsgIds : EnvRosQueues(m)
    \/ \E m \in RosMsgIds : RosDeliver(m)
    \/ \E m \in RosMsgIds, answer \in RosDriverAnswers : RosDrivers(m, answer)
    \/ \E m \in RosMsgIds, answer \in RosAnswers : RosOptimized(m, answer)

SpecRos == Init /\ [][NextRos]_vars

\* ---- api-gateway ----
\* req.user before authenticateToken has set it
NoUser == [id |-> Null, role |-> Null]
\* jwt.verify(token, JWT_SECRET): the payload, or an error
jwtVerify(token) ==
    IF token.jwt /\ token.signed /\ ~token.expired
    THEN [err |-> FALSE, user |-> [id |-> "u1", role |-> token.role]]
    ELSE [err |-> TRUE, user |-> NoUser]

GwNext(user) == [next |-> TRUE, status |-> 0, error |-> Null, user |-> user]
GwAnswer(status, error) == [next |-> FALSE, status |-> status, error |-> error, user |-> NoUser]

\* authenticateToken: the token is the second word of the header
authenticateToken_ignoresError(header) ==
    IF Len(header) < 2 THEN GwAnswer(401, "Access token required")
    ELSE GwNext([id |-> "u1", role |-> header[2].role])
authenticateToken(header) ==
    IF Len(header) < 2 THEN GwAnswer(401, "Access token required")
    ELSE LET v == jwtVerify(header[2]) IN
         IF v.err THEN GwAnswer(403, "Invalid or expired token")
         ELSE GwNext(v.user)

\* authorizeRole(roles)
authorizeRole_anyRole(roles, user) == GwNext(user)
authorizeRole(roles, user) ==
    IF user = NoUser THEN GwAnswer(401, "User not authenticated")
    ELSE IF user.role \notin roles THEN GwAnswer(403, "Insufficient permissions")
    ELSE GwNext(user)

\* the middleware of a protected route, behind the rate limiter of /api/
gateway(route, header, limited) ==
    IF limited THEN GwAnswer(429, "Too many requests from this IP, please try again later.")
    ELSE LET a == authenticateToken(header) IN
         IF ~a.next THEN a
         ELSE IF GwAllowed(route) = {} THEN a
         ELSE authorizeRole(GwAllowed(route), a.user)

\* one request to a protected route: answered by the gateway, or forwarded
\* with the user's id and role in its headers
GwRequest(route, header, limited) ==
    LET r == gateway(route, header, limited) IN
    /\ r.next => Len(gwProxied) < MaxProxied
    /\ gwLast' = [served |-> TRUE, route |-> route, header |-> header, limited |-> limited,
                  forwarded |-> r.next, status |-> r.status, error |-> r.error]
    /\ gwProxied' = IF r.next
                    THEN Append(gwProxied, [route |-> route, header |-> header,
                                            userId |-> r.user.id, userRole |-> r.user.role])
                    ELSE gwProxied
    /\ UNCHANGED <<adapterVars, obs, streamVars, srvVars, mbVars, cmsVars, rosVars, svcVars>>

NextGateway ==
    \E route \in GwRoutes, header \in GwHeaders, limited \in BOOLEAN : GwRequest(route, header, limited)

SpecGateway == Init /\ [][NextGateway]_vars

\* server.js with its requests to the warehouse
NextRequests ==
    \/ SrvLifecycle
    \/ SrvSend
    \/ \E id \in ReplyIds, status \in {"OK", "ERR"}, json \in BOOLEAN : SrvReply(id, status, json)
    \/ \E l1 \in Replies, l2 \in Replies : SrvReplies(l1, l2)
    \/ \E l \in Replies, cut \in {"id", "data"} : SrvReplyHead(l, cut)
    \/ SrvReplyTail
    \/ \E id \in RequestIds : SrvRequestTimeout(id)

SpecRequests == Init /\ [][NextRequests]_vars

\* every request timeout that was set fires
RequestFairness == \A id \in RequestIds : WF_vars(SrvRequestTimeout(id))
LiveSpecRequests == SpecRequests /\ RequestFairness

\* the two bridges to the warehouse, each with its own connection
NextBridge ==
    \/ HandlerReturns
    \/ Heartbeat
    \/ WmsLifecycle
    \/ RabbitLifecycle
    \/ SrvLifecycle

SpecBridge == Init /\ [][NextBridge]_vars

\* the connections of the two bridges alone
NextReconnect ==
    \/ WmsLifecycle
    \/ SrvLifecycle

SpecReconnect == Init /\ [][NextReconnect]_vars

\* every callback that is due runs, and a failed transport raises its event
BridgeFairness ==
    /\ SF_vars(Main)
    /\ SF_vars(WmsConnected)
    /\ SF_vars(WmsConnectError)
    /\ SF_vars(WmsSocketError)
    /\ SF_vars(WmsSocketClose)
    /\ SF_vars(WmsReconnectTimer)
    /\ SF_vars(SrvStart)
    /\ SF_vars(SrvConnected)
    /\ SF_vars(SrvSocketError)
    /\ SF_vars(SrvSocketClose)
    /\ SF_vars(SrvReconnectTimer)

LiveSpecReconnect == SpecReconnect /\ BridgeFairness

\* the adapter reading one connection's stream chunk by chunk
NextStream ==
    \/ HandlerReturns
    \/ Main
    \/ StreamConnected
    \/ WmsConnectError
    \/ WmsSocketError
    \/ WmsSocketClose
    \/ WmsReconnectTimer
    \/ EnvWmsDown
    \/ EnvWmsUp
    \/ RabbitLifecycle
    \/ \E chunk \in StreamChunks : StreamData(chunk)

SpecStream == Init /\ [][NextStream]_vars

NextIn ==
    \/ HandlerReturns
    \/ WmsLifecycle
    \/ RabbitLifecycle
    \/ \E chunk \in ChunksAfter(wmsBuffer) : WmsData(chunk)

\* the adapter translating the warehouse's events
SpecIn == Init /\ [][NextIn]_vars

\* ---- services/wms-adapter/server.js: the order.created handler ----
shipRest == <<adapterVars, obs, streamVars, mbVars, cmsVars, rosVars, gwVars, nsVars, osVars>>
srvLinkVars == <<srvPhase, srvSock, srvOld, isConnected, reconnectTimer, srvTimers, srvWmsUp, srvTail>>

\* WMSAdapter.createShipment up to its first await: a mock shipment without
\* a connection, the CREATE_SHIPMENT command otherwise
createShipment(connected) == IF connected THEN "command" ELSE "mock"

EnvShipQueues(m) ==
    /\ shipMsg[m] = "unsent"
    /\ shipMsg' = [shipMsg EXCEPT ![m] = "queued"]
    /\ UNCHANGED <<shipReq, srvVars, shipRest>>

\* the broker delivers the message: the handler calls createShipment inside
\* its try; with the mock it returns at once and subscribe's callback acks
\* (the channel is taken to be open)
ShipDeliver(m) ==
    /\ srvPhase = "running"
    /\ shipMsg[m] = "queued"
    /\ IF createShipment(isConnected) = "mock"
       THEN /\ shipMsg' = [shipMsg EXCEPT ![m] = "acked"]
            /\ UNCHANGED <<shipReq, reqVars>>
       ELSE /\ requestCounter < MaxRequests
            /\ sendWMSCommand
            /\ shipReq' = [shipReq EXCEPT ![m] = requestCounter + 1]
            /\ shipMsg' = [shipMsg EXCEPT ![m] = "handling"]
    /\ UNCHANGED <<srvLinkVars, shipRest>>

\* the promise of sendWMSCommand has settled: createShipment returns
\* result.data or throws, the handler's catch logs, and the callback acks
ShipHandlerDone(m) ==
    /\ srvPhase \in {"running", "closing"}
    /\ shipMsg[m] = "handling"
    /\ promise[shipReq[m]] # "pending"
    /\ shipMsg' = [shipMsg EXCEPT ![m] = "acked"]
    /\ UNCHANGED <<shipReq, srvVars, shipRest>>

NextShipment ==
    \/ NextRequests
    \/ \E m \in ShipMsgIds : EnvShipQueues(m)
    \/ \E m \in ShipMsgIds : ShipDeliver(m)
    \/ \E m \in ShipMsgIds : ShipHandlerDone(m)

SpecShipment == Init /\ [][NextShipment]_vars

\* ---- services/order-service/server.js: PATCH /api/orders/:id/assign ----
osRest == <<adapterVars, obs, streamVars, srvVars, mbVars, cmsVars, rosVars, gwVars, nsVars, shipVars>>

\* the handler up to the end of its await of Order.findById(id): 403 for
\* another role than admin, 404 without a document; otherwise the handler
\* holds the document as it was stored when the query ran
OsAssignFind(r, role, id, driverId) ==
    /\ osReq[r].pc = "none"
    /\ osReq' = [osReq EXCEPT ![r] =
          IF role # "admin"
          THEN [pc |-> "done", role |-> role, id |-> id, driverId |-> driverId,
                loaded |-> "null", res |-> 403]
          ELSE IF id # "o1"
          THEN [pc |-> "done", role |-> role, id |-> id, driverId |-> driverId,
                loaded |-> "null", res |-> 404]
          ELSE [pc |-> "found", role |-> role, id |-> id, driverId |-> driverId,
                loaded |-> osOrder.status, res |-> 0]]
    /\ UNCHANGED <<osOrder, osRest>>

\* order.save() of a document whose driverId and status were set and whose
\* tracking got one more entry: the update sets the two fields and pushes the
\* entry, whatever the stored document has become meanwhile
orderSave(order, r, driverId) ==
    [status |-> "assigned", driverId |-> driverId,
     tracking |-> Append(order.tracking, "assigned"),
     assignedBy |-> Append(order.assignedBy, r)]

\* the rest of the handler: 400 when the loaded document is not 'created';
\* otherwise the document is changed and saved, driver.assigned is published
\* and the response is 200
OsAssignSave(r) ==
    /\ osReq[r].pc = "found"
    /\ IF osReq[r].loaded # "created"
       THEN /\ osReq' = [osReq EXCEPT ![r].pc = "done", ![r].res = 400]
            /\ UNCHANGED osOrder
       ELSE /\ osOrder' = orderSave(osOrder, r, osReq[r].driverId)
            /\ osReq' = [osReq EXCEPT ![r].pc = "done", ![r].res = 200]
    /\ UNCHANGED osRest

NextOrders ==
    \/ \E r \in OsReqIds, role \in OsRoles, id \in OsOrderIds, driverId \in OsDrivers :
           OsAssignFind(r, role, id, driverId)
    \/ \E r \in OsReqIds : OsAssignSave(r)

SpecOrders == Init /\ [][NextOrders]_vars

\* ---- services/notification-service/server.js ----
nsRest == <<adapterVars, obs, streamVars, srvVars, mbVars, cmsVars, rosVars, gwVars, shipVars, osVars>>

\* the sockets of a user that are connected
NsLive(u) == {s \in NsSocketIds : nsSockets[s].user = u /\ nsSockets[s].state = "live"}

\* io.on('connection'): the socket replaces the user's entry
nsConnection(map, u, s) == [map EXCEPT ![u] = s]

\* socket.on('disconnect'): the user's entry is deleted, whichever socket it holds
nsDisconnect(map, u, s) == [map EXCEPT ![u] = 0]

\* sendRealTimeNotification(userId, ...): emits on the stored socket and
\* returns true, returns false without an entry
sendRealTimeNotification(map, u) == [socket |-> map[u], ret |-> map[u] # 0]

\* a client connects with a token of user u: the middleware sets socket.userId
NsConnect(s, u) ==
    /\ nsSockets[s].state = "new"
    /\ \A t \in NsSocketIds : t < s => nsSockets[t].state # "new"
    /\ nsSockets' = [nsSockets EXCEPT ![s] = [user |-> u, state |-> "live"]]
    /\ connectedUsers' = nsConnection(connectedUsers, u, s)
    /\ UNCHANGED <<nsLast, nsRest>>

NsDisconnect(s) ==
    /\ nsSockets[s].state = "live"
    /\ nsSockets' = [nsSockets EXCEPT ![s].state = "closed"]
    /\ connectedUsers' = nsDisconnect(connectedUsers, nsSockets[s].user, s)
    /\ UNCHANGED <<nsLast, nsRest>>

NsSend(u) ==
    LET r == sendRealTimeNotification(connectedUsers, u) IN
    /\ nsLast' = [served |-> TRUE, user |-> u, live |-> NsLive(u) # {},
                  socket |-> r.socket, ret |-> r.ret]
    /\ UNCHANGED <<nsSockets, connectedUsers, nsRest>>

NextNotify ==
    \/ \E s \in NsSocketIds, u \in NsUsers : NsConnect(s, u)
    \/ \E s \in NsSocketIds : NsDisconnect(s)
    \/ \E u \in NsUsers : NsSend(u)

SpecNotify == Init /\ [][NextNotify]_vars

Next ==
    \/ NextOut
    \/ \E chunk \in ChunksAfter(wmsBuffer) : WmsData(chunk)
    \/ Heartbeat
    \/ NextRequests
    \/ NextBroker
    \/ NextCms
    \/ NextRos
    \/ NextGateway
    \/ NextNotify
    \/ NextShipment
    \/ NextOrders

Spec == Init /\ [][Next]_vars

\* the adapter consuming order.created and writing commands to the warehouse
SpecOut == Init /\ [][NextOut]_vars

\* the event loop runs every callback that is due, the broker delivers what is
\* queued again and again, and the warehouse reads what reaches it; nothing
\* is assumed about outages of the warehouse or of the broker
OutFairness ==
    /\ SF_vars(Main)
    /\ SF_vars(HandlerReturns)
    /\ SF_vars(WmsConnected)
    /\ SF_vars(WmsConnectError)
    /\ SF_vars(WmsSocketError)
    /\ SF_vars(WmsSocketClose)
    /\ SF_vars(WmsReconnectTimer)
    /\ SF_vars(RabbitReconnectTimer)
    /\ SF_vars(EnvWmsReads)
    /\ \A m \in MsgIds : SF_vars(Consume(m))

LiveSpecOut == SpecOut /\ OutFairness

\* ----------------------------------------------------------------- claims
\* what the order.created consumer did with message m, when it has just run
Consumed(m) == obs.op = "consume" /\ obs.msg = m
Requeued(m) == Consumed(m) /\ obs.settle = <<"nack_requeue">>
CommandPending(o) ==
    \E i \in 1..Len(wbuf \o inflight) : (wbuf \o inflight)[i] = ReceivePackage(o)

\* C1: a valid order.created delivered while the WMS socket is not connected
\* (no socket, still connecting, destroyed) is requeued: one nack with
\* requeue, no ack, and no receive_package written for that delivery.
C1_RequeuedUnlessConnected ==
    \A m \in ValidMsgs :
        (Consumed(m) /\ obs.sock # "connected")
            => (obs.settle = <<"nack_requeue">> /\ obs.cmds = <<>>)

\* C2: once a valid order.created has been requeued because the WMS was
\* disconnected, and provided the warehouse and the broker come back and stay
\* up, the warehouse eventually reads a receive_package for that order and
\* the message is acked.
C2_EventuallyDelivered ==
    \A m \in ValidMsgs :
        <>[](wmsUp /\ amqpCh = "open" /\ rabbitPc = "idle")
            => [](Requeued(m) => <>(wmsGot[Content(m).orderId] >= 1 /\ msgState[m] = "acked"))

\* C3: over all deliveries of one order.created the warehouse reads its
\* receive_package exactly once, in the delivery that is acked: never twice,
\* a requeued delivery wrote nothing, and an acked message whose command is
\* no longer under way has been read by the warehouse.
C3_ExactlyOncePerAck ==
    \A m \in ValidMsgs :
        LET o == Content(m).orderId IN
        /\ wmsGot[o] <= 1
        /\ Requeued(m) => (obs.cmds = <<>> /\ wrote[m] = 0)
        /\ (msgState[m] = "acked" /\ ~CommandPending(o)) => wmsGot[o] = 1

\* C9: an order.created without an orderId (or with no readable body) is
\* acked once and dropped, in every state of the WMS connection: no nack, no
\* requeue, and no command for it is written to the warehouse.
C9_InvalidAckedAndDropped ==
    /\ \A m \in MsgIds \ ValidMsgs :
        /\ Consumed(m) => (obs.settle = <<"ack">> /\ obs.cmds = <<>> /\ msgState[m] = "acked")
        /\ wrote[m] = 0
    /\ \A i \in 1..Len(wbuf \o inflight) :
        LET line == (wbuf \o inflight)[i] IN
        line.type = "receive_package" => line.orderId # Null
C9_Witness == Consumed("mNoId") /\ obs.sock = "destroyed" /\ msgState["mNoId"] = "acked"

\* ------------------------------------------ claims on the warehouse's events
\* the handled lines of the chunk that has just been processed
Steps == IF obs.op = "data" THEN obs.steps ELSE <<>>
\* the acks recorded before the i-th handled line of the chunk being processed
AcksBefore(i) == AcksRecorded(ackHist, SubSeq(obs'.steps, 1, i - 1))
\* an event with a type, as the protocol defines events
IsEvent(st) == st.parsed /\ st.msg.type # Null
\* the event was handed to publishRoutingKey once
Republished(st) == Len(st.calls) = 1
OnlyPackage(msg) == msg.packageId # Null /\ msg.orderId = Null
OnlyOrder(msg) == msg.packageId = Null /\ msg.orderId # Null
LatestOrdersOf(h, p) == {o \in Orders : h[o].last = p}

\* C4 as claimed: once an ack with packageId P and orderId O was handled,
\* every later event that is no ack and carries P without an orderId is
\* republished with orderId = O.
C4_FilledFromAnyEarlierAck ==
    [][obs'.op = "data" =>
        \A i \in 1..Len(obs'.steps) :
            LET st == obs'.steps[i] IN
            (IsEvent(st) /\ st.msg.type # "ack" /\ OnlyPackage(st.msg)) =>
                \A o \in Orders :
                    st.msg.packageId \in AcksBefore(i)[o].ever =>
                        (Republished(st) /\ st.calls[1].payload.orderId = o)]_vars

\* C4 amended: an event that is no ack and carries P without an orderId is
\* republished with orderId = O when O's latest ack carried P and no other
\* order's latest ack did; when several orders' latest acks carried P it gets
\* one of them, and null when none did.
C4_FilledFromLatestAck ==
    [][obs'.op = "data" =>
        \A i \in 1..Len(obs'.steps) :
            LET st == obs'.steps[i]
                cands == LatestOrdersOf(AcksBefore(i), st.msg.packageId)
            IN  (IsEvent(st) /\ st.msg.type # "ack" /\ OnlyPackage(st.msg)) =>
                    /\ Republished(st)
                    /\ st.calls[1].payload.packageId = st.msg.packageId
                    /\ IF cands = {} THEN st.calls[1].payload.orderId = Null
                       ELSE st.calls[1].payload.orderId \in cands]_vars
C4_Witness ==
    \E i \in 1..Len(Steps) :
        /\ IsEvent(Steps[i]) /\ Steps[i].msg.type = "package_ready"
        /\ Steps[i].msg = [type |-> "package_ready", packageId |-> "p1", orderId |-> Null]
        /\ Steps[i].calls[1].payload.orderId = "o1"
        /\ LatestOrdersOf(ackHist, "p1") = {"o1"}
        /\ Steps[i].sent # <<>>

\* the enrichment of one event, given the acks recorded before it
EnrichedAsRecorded(st, h) ==
    /\ Republished(st)
    /\ OnlyOrder(st.msg) =>
        /\ st.calls[1].payload.orderId = st.msg.orderId
        /\ st.calls[1].payload.packageId = h[st.msg.orderId].last
    /\ (OnlyPackage(st.msg) /\ LatestOrdersOf(h, st.msg.packageId) = {}) =>
        /\ st.calls[1].payload.packageId = st.msg.packageId
        /\ st.calls[1].payload.orderId = Null

\* C5 as claimed: every event carrying only orderId is republished with the
\* packageId recorded for the order (null when there is none), one carrying
\* only a packageId nobody recorded is republished with orderId null, and no
\* event is withheld.
C5_EveryEventEnriched ==
    [][obs'.op = "data" =>
        \A i \in 1..Len(obs'.steps) :
            IsEvent(obs'.steps[i]) => EnrichedAsRecorded(obs'.steps[i], AcksBefore(i))]_vars

\* C5 amended: the same for every event that is no ack; an ack is republished
\* with the ids it carries and is not withheld either.
C5_NonAckEventEnriched ==
    [][obs'.op = "data" =>
        \A i \in 1..Len(obs'.steps) :
            LET st == obs'.steps[i] IN
            IsEvent(st) =>
                IF st.msg.type = "ack"
                THEN /\ Republished(st)
                     /\ st.calls[1].payload.packageId = st.msg.packageId
                     /\ st.calls[1].payload.orderId = st.msg.orderId
                ELSE EnrichedAsRecorded(st, AcksBefore(i))]_vars
C5_Witness ==
    /\ \E i \in 1..Len(Steps) :
        /\ Steps[i].msg = [type |-> "package_loaded", packageId |-> Null, orderId |-> "o2"]
        /\ Steps[i].parsed
        /\ Steps[i].calls[1].payload.packageId = "p2"
    /\ ackHist["o2"].last = "p2"

\* C6: an event whose type is not in the mapping table is not dropped: it is
\* published once, on a routing key (a string) made from its type.
C6_UnknownTypePublished ==
    \A i \in 1..Len(Steps) :
        (IsEvent(Steps[i]) /\ Steps[i].msg.type \notin KnownTypes) =>
            /\ Republished(Steps[i])
            /\ Steps[i].calls[1].key.str
            /\ Steps[i].calls[1].key.segs[Len(Steps[i].calls[1].key.segs)] = Steps[i].msg.type
            /\ amqpCh = "open" => Len(Steps[i].sent) = 1

\* the routing keys the claim lists
C7_ListedKey(t) ==
    CASE t = "ack" -> <<"wms", "package", "ack">>
      [] t = "package_received" -> <<"wms", "package", "received">>
      [] t = "package_ready" -> <<"wms", "package", "ready">>
      [] t = "package_scanned" -> <<"wms", "package", "scanned">>
      [] t = "package_loaded" -> <<"wms", "package", "loaded">>
      [] t = "error" -> <<"wms", "package", "error">>

\* C7: every parsed event of a known type is published exactly once, on the
\* routing key listed for its type, with the raw event; an ack with both ids
\* is published on wms.package.ack carrying both.
C7_KnownTypeOnMappedKey ==
    \A i \in 1..Len(Steps) :
        LET st == Steps[i] IN
        (IsEvent(st) /\ st.msg.type \in KnownTypes) =>
            /\ Republished(st)
            /\ st.calls[1].key.str
            /\ st.calls[1].key.segs = C7_ListedKey(st.msg.type)
            /\ st.calls[1].payload.raw = st.msg
            /\ st.sent = IF amqpCh = "open" THEN st.calls ELSE <<>>
            /\ IsFullAck(st.msg) =>
                /\ st.calls[1].payload.packageId = st.msg.packageId
                /\ st.calls[1].payload.orderId = st.msg.orderId
C7_Witness ==
    \E i \in 1..Len(Steps) :
        /\ Steps[i].msg = [type |-> "ack", packageId |-> "p2", orderId |-> "o1"]
        /\ Steps[i].parsed
        /\ Len(Steps[i].sent) = 1
        /\ Steps[i].sent[1].key.segs = <<"wms", "package", "ack">>
        /\ Steps[i].sent[1].payload.packageId = "p2"
        /\ Steps[i].sent[1].payload.orderId = "o1"

\* C8: the map holds, for every order, the package of the latest ack that
\* carried both ids, and nothing else: acks lacking an id and events of other
\* types neither write nor remove.
C8_MapIsLatestFullAcks ==
    /\ \A o \in Orders :
        IF ackHist[o].last = Null THEN ~MapHas(orderToPackage, o)
        ELSE MapHas(orderToPackage, o) /\ MapGet(orderToPackage, o) = ackHist[o].last
    /\ \A i, j \in 1..Len(orderToPackage) :
        orderToPackage[i][1] = orderToPackage[j][1] => i = j
    /\ \A i \in 1..Len(orderToPackage) : orderToPackage[i][1] \in Orders
C8_Witness ==
    /\ ackHist["o1"].ever = {"p1", "p2"}
    /\ MapGet(orderToPackage, "o1") = "p2"
    /\ \E i \in 1..Len(Steps) : Steps[i].parsed /\ Steps[i].msg.type = "ack" /\ OnlyOrder(Steps[i].msg)

\* the complete lines of a piece of the stream in order, blank ones left
\* out, read byte by byte
RECURSIVE LinesFrom(_, _, _)
LinesFrom(input, cur, done) ==
    IF input = <<>> THEN done
    ELSE IF Head(input) = NL
    THEN LinesFrom(Tail(input), <<>>, IF cur = <<>> THEN done ELSE Append(done, cur))
    ELSE LinesFrom(Tail(input), Append(cur, Head(input)), done)
LinesIn(input) == LinesFrom(input, <<>>, <<>>)
\* a line that is the text of one event, from its first to its last byte
WellFormed(line) ==
    /\ Len(line) = 2
    /\ line[1].k = "head" /\ line[2].k = "tail"
    /\ line[1].e = line[2].e
    /\ line[1].e \in Events
EventIn(line) == line[1].e

\* C10: a line that does not parse is discarded alone: nothing is published
\* for it and the map is not changed by it, the socket stays connected with
\* no close and no reconnect timer, and every well-formed line before and
\* after it is handled, in the order of the stream.
C10_BadLineDiscardedAlone ==
    [][obs'.op = "data" =>
        LET lines == LinesIn(obs'.input) IN
            /\ Len(obs'.steps) = Len(lines)
            /\ \A i \in 1..Len(lines) :
                LET st == obs'.steps[i] IN
                IF WellFormed(lines[i])
                THEN /\ st.parsed
                     /\ st.msg = EventIn(lines[i])
                     /\ st.msg.type # Null => Republished(st)
                ELSE ~st.parsed /\ st.calls = <<>> /\ st.sent = <<>>
            /\ (\A i \in 1..Len(lines) : ~(WellFormed(lines[i]) /\ IsFullAck(EventIn(lines[i]))))
                    => orderToPackage' = orderToPackage
            /\ wmsSocket' = "connected"
            /\ ~closePending'
            /\ wmsTimers' = wmsTimers]_vars
C10_Witness ==
    /\ Len(Steps) = 3
    /\ Steps[1].parsed /\ Steps[1].msg.type = "ack" /\ Len(Steps[1].sent) = 1
    /\ ~Steps[2].parsed
    /\ Steps[3].parsed /\ Steps[3].msg.type = "package_ready" /\ Len(Steps[3].sent) = 1
    /\ Steps[3].sent[1].payload.orderId = "o1"
    /\ wmsSocket = "connected"
    /\ wmsTimers = 0

\* the unterminated rest of a piece of the stream: what follows its last newline
RECURSIVE RestOf(_, _)
RestOf(input, cur) ==
    IF input = <<>> THEN cur
    ELSE IF Head(input) = NL THEN RestOf(Tail(input), <<>>)
    ELSE RestOf(Tail(input), Append(cur, Head(input)))
\* the events of the well-formed lines among lines, in order
RECURSIVE EventsOf(_)
EventsOf(lines) ==
    IF lines = <<>> THEN <<>>
    ELSE IF WellFormed(Head(lines))
    THEN <<[msg |-> EventIn(Head(lines)), republished |-> EventIn(Head(lines)).type # Null]>>
            \o EventsOf(Tail(lines))
    ELSE EventsOf(Tail(lines))

C12_ReportedConnectedOnlyWhenEstablished ==
    /\ (obs.op = "status" /\ obs.wms = "connected") => wmsSocket = "connected"
    /\ isConnected => srvSock \in {"connected", "broken"}

\* a bridge that is running is connecting, connected, about to handle the
\* 'close' of its socket, or has a reconnect timer pending
C13_NoDeadEnd ==
    /\ pc # "start" => (wmsSocket \in {"connecting", "connected"} \/ closePending \/ wmsTimers > 0)
    /\ srvPhase = "running" => (SrvLive(srvSock) \/ srvSock = "closing" \/ srvTimers > 0)
C14_SingleReconnect ==
    /\ wmsTimers + (IF closePending THEN 1 ELSE 0)
            + (IF wmsSocket \in {"connecting", "connected"} THEN 1 ELSE 0) <= 1
    /\ srvTimers <= 1
    /\ srvOld = 0
    /\ srvTimers = 1 => ~SrvLive(srvSock)
C14_Witness ==
    /\ srvPhase = "running"
    /\ srvSock = "closing"
    /\ srvTimers = 1
    /\ reconnectTimer = "set"

\* C20: once the shutdown handler has started no reconnect timer is pending
\* and no socket is connecting or connected.
C20_ShutdownCancelsReconnect ==
    srvPhase \in {"closing", "exited"} => (srvTimers = 0 /\ ~SrvLive(srvSock))

\* C15: when the broker connection is lost the client gets connected again
\* once the broker stays reachable.
C15_ReconnectsAfterClose ==
    (<>[]mbBrokerUp) => [](mbConn = "lost" => <>(mbConn = "open"))

\* C16: on every connection connectRabbit opens, the first one and every
\* reconnect, a message is consumed only after the exchange and the queue
\* were asserted and the binding to order.created was declared on that
\* connection, and whenever the setup is complete and the connection open the
\* queue is asserted, bound and has its consumer; the consumer is never
\* registered ahead of the binding.
FullTopology == {"exchange", "queue", "binding", "consumer"}
C17_ConnectIdempotent ==
    /\ (obs.op = "mb.connect" /\ obs.wasConnected) => obs.opened = 0
    /\ mbOpen <= 1

\* C18: publish() without an open channel returns normally.
C18_PublishFailsSilently ==
    (obs.op = "mb.publish" /\ obs.ch # "open") => obs.outcome = "returned"

C21_RequestLifecycle ==
    \A id \in RequestIds :
        /\ id \in pendingRequests <=> promise[id] = "pending"
        /\ id \in pendingRequests => (id <= requestCounter /\ id \in reqTimers)
        /\ settleCalls[id] = (IF promise[id] \in {"resolved", "rejected", "timedout"} THEN 1 ELSE 0)

\* C22: when the timeout of a request fires, only that request changes: its
\* record is deleted and its caller rejected with the timeout error if it was
\* still pending, and nothing at all if it was not; isConnected, the socket,
\* the reconnect timer and every other request stay as they were.
C22_TimeoutFrame ==
    [][\A id \in RequestIds :
        (id \in reqTimers /\ id \notin reqTimers' /\ srvPhase' # "exited") =>
            /\ isConnected' = isConnected
            /\ srvSock' = srvSock
            /\ srvOld' = srvOld
            /\ reconnectTimer' = reconnectTimer
            /\ srvTimers' = srvTimers
            /\ requestCounter' = requestCounter
            /\ pendingRequests' = pendingRequests \ {id}
            /\ promise'[id] = (IF id \in pendingRequests THEN "timedout" ELSE promise[id])
            /\ \A other \in RequestIds \ {id} :
                /\ promise'[other] = promise[other]
                /\ settleCalls'[other] = settleCalls[other]
                /\ (other \in reqTimers') = (other \in reqTimers)]_vars
C22_Witness ==
    /\ promise[1] = "timedout"
    /\ 1 \notin reqTimers
    /\ promise[2] = "pending"
    /\ 2 \in pendingRequests
    /\ isConnected
    /\ srvSock = "connected"
    /\ srvTimers = 0

\* the entries of cmsLog with the given op for message m, as positions
CmsOps(op, m) == {i \in 1..Len(cmsLog) : cmsLog[i].op = op /\ cmsLog[i].msg = m}
CmsPublishes == {i \in 1..Len(cmsLog) : cmsLog[i].op = "publish"}

\* C23 as stated: every event the SOAP bridge publishes has the routing key
\* billing.order.created.
C23_KeyIsBillingOrderCreated ==
    \A i \in CmsPublishes : cmsLog[i].event.key = "billing.order.created"

\* C23: a message whose SOAP call answered Success=true has, once handled,
\* exactly one event published for it, with the routing key cms.order.created,
\* the order id of the message as localOrderId, the id the billing system
\* gave as cmsOrderId and a correlationId no other published event has; the
\* ack of the message comes after the publish.
C23_SuccessPublishesOnce ==
    \A m \in CmsMsgIds :
        (cmsMsg[m] = "acked" /\ cmsAnswer[m] = "true") =>
            /\ Cardinality(CmsOps("publish", m)) = 1
            /\ \A i \in CmsOps("publish", m) :
                /\ cmsLog[i].event.key = "cms.order.created"
                /\ cmsLog[i].event.localOrderId = CmsOrder(m).orderId
                /\ cmsLog[i].event.cmsOrderId = CmsOrderId(CmsOrder(m))
                /\ \A j \in CmsPublishes \ {i} :
                    cmsLog[j].event.correlationId # cmsLog[i].event.correlationId
                /\ \E a \in CmsOps("ack", m) : a > i
C23_Witness ==
    /\ cmsMsg["c1"] = "acked" /\ cmsAnswer["c1"] = "true"
    /\ cmsMsg["c2"] = "acked" /\ cmsAnswer["c2"] = "true"
    /\ Cardinality(CmsPublishes) = 2

\* C24: a handled message is acked exactly once and never nacked, whatever
\* the SOAP call did, a message being handled is not settled yet, and an
\* event is published only for a message whose SOAP call answered
\* Success=true.
C24_AckedOnceNoEventOnFailure ==
    \A m \in CmsMsgIds :
        /\ CmsOps("nack", m) = {}
        /\ cmsMsg[m] = "acked" => Cardinality(CmsOps("ack", m)) = 1
        /\ cmsMsg[m] # "acked" => CmsOps("ack", m) = {}
        /\ cmsAnswer[m] # "true" => CmsOps("publish", m) = {}
C24_Witness ==
    /\ cmsMsg["c1"] = "acked" /\ cmsAnswer["c1"] = "timeout"
    /\ cmsMsg["c2"] = "acked" /\ cmsAnswer["c2"] = "notxml"
    /\ cmsMsg["cBad"] = "acked"
    /\ CmsPublishes = {}

\* C25: a message whose route optimization failed, for whichever reason, has
\* a route.optimization.failed event published for it with its orderId, the
\* message of the error and its correlationId, and no route.optimized event.
C25_FailurePublishesFailedEvent ==
    \A m \in RosMsgIds :
        (rosMsg[m] = "done" /\ rosFail[m] # "none") =>
            /\ \E i \in 1..Len(rosLog) :
                   rosLog[i] = [key |-> "route.optimization.failed", orderId |-> m,
                                error |-> rosFail[m], correlationId |-> RosData(m).correlationId]
            /\ \A i \in 1..Len(rosLog) :
                   rosLog[i].orderId = m => rosLog[i].key = "route.optimization.failed"
C25_Witness ==
    /\ rosFail["r1"] = "ROS optimization failed"
    /\ rosFail["r2"] = "Pickup coordinates are required for route optimization"
    /\ Len(rosLog) = 2

\* the calls of the two operations made without a credential
RosUnconfigured == {c \in rosReplies : ~c.env.apiKey}

\* C26: without a credential a call sends no request to the remote optimizer
\* and ends as the configuration selects: with the local fallback in the
\* tolerant variant, with the 'not configured' failure in the strict one.
C26_VariantSelectedByConfiguration ==
    \A c \in RosUnconfigured :
        /\ c.result.requests = 0
        /\ c.env.variant = "strict" =>
               (c.result.threw /\ c.result.error = "ROS API not configured")
        /\ c.env.variant = "tolerant" =>
               (~c.result.threw /\ c.result.provider = "fallback")

\* C27: without a credential, and with the fallback selected, every ETA call
\* returns a distance, and two calls with the same origin and destination
\* return the same one.
C27_FallbackDeterministic ==
    \A c \in RosUnconfigured : (c.op = "eta" /\ c.env.variant = "tolerant") =>
        /\ ~c.result.threw
        /\ \A d \in RosUnconfigured :
               (d.op = "eta" /\ d.origin = c.origin /\ d.destination = c.destination) =>
                   (~d.result.threw /\ d.result.distance = c.result.distance)

\* the lines on their way to the warehouse that are registrations
Registrations(lines) == {i \in 1..Len(lines) : lines[i] = RegisterLine}

\* C28: the connect callback leaves exactly one register_adapter line on the
\* new connection, and it is the first line written on it; no other step
\* writes a registration.
C28_RegistrationFirst ==
    [][IF wmsSocket = "connecting" /\ wmsSocket' = "connected"
       THEN /\ Cardinality(Registrations(inflight')) = 1
            /\ Head(inflight') = RegisterLine
       ELSE Cardinality(Registrations(wbuf' \o inflight'))
                <= Cardinality(Registrations(wbuf \o inflight))]_vars

\* C29 as claimed: an ack that carries only one id whose counterpart is
\* recorded is republished with both ids.
C29_AckEnriched ==
    [][obs'.op = "data" =>
        \A i \in 1..Len(obs'.steps) :
            LET st == obs'.steps[i]
                h == AcksBefore(i)
            IN  (IsEvent(st) /\ st.msg.type = "ack") =>
                    /\ Republished(st)
                    /\ (OnlyOrder(st.msg) /\ h[st.msg.orderId].last # Null) =>
                           st.calls[1].payload.packageId = h[st.msg.orderId].last
                    /\ (OnlyPackage(st.msg) /\ LatestOrdersOf(h, st.msg.packageId) # {}) =>
                           st.calls[1].payload.orderId \in LatestOrdersOf(h, st.msg.packageId)]_vars

\* C29 amended: an ack that carries only one id is republished on
\* wms.package.ack with that id and the other one null, whatever the
\* correlation store holds.
C29_AckAsReceived ==
    [][obs'.op = "data" =>
        \A i \in 1..Len(obs'.steps) :
            LET st == obs'.steps[i] IN
            (IsEvent(st) /\ st.msg.type = "ack" /\ (OnlyOrder(st.msg) \/ OnlyPackage(st.msg))) =>
                /\ Republished(st)
                /\ st.calls[1].key = wmsTypeToRoutingKey["ack"]
                /\ st.calls[1].payload.packageId = st.msg.packageId
                /\ st.calls[1].payload.orderId = st.msg.orderId]_vars
C29_Witness ==
    \E i \in 1..Len(Steps) :
        /\ Steps[i].msg = [type |-> "ack", packageId |-> Null, orderId |-> "o1"]
        /\ Steps[i].parsed
        /\ ackHist["o1"].last = "p1"
        /\ Steps[i].calls[1].payload.packageId = Null

\* the header carries a token that is a JWT signed with JWT_SECRET and not expired
GwValidToken(header) ==
    Len(header) >= 2 /\ header[2].jwt /\ header[2].signed /\ ~header[2].expired

\* C30: every request the gateway has forwarded on a protected route
\* carried a valid token, of an allowed role where the route lists roles, and
\* went out under that token's role; a request that the rate limiter let
\* through is answered 401 'Access token required' without a token, 403
\* 'Invalid or expired token' with one that does not verify, and 403
\* 'Insufficient permissions' with a valid one of a role the route does not
\* list, and is forwarded in none of these cases.
C30_ProtectedRoutesNeedValidToken ==
    /\ \A i \in 1..Len(gwProxied) :
        /\ GwValidToken(gwProxied[i].header)
        /\ gwProxied[i].userRole = gwProxied[i].header[2].role
        /\ GwAllowed(gwProxied[i].route) # {} => gwProxied[i].userRole \in GwAllowed(gwProxied[i].route)
    /\ (gwLast.served /\ gwLast.forwarded) => GwValidToken(gwLast.header)
    /\ (gwLast.served /\ ~gwLast.limited) =>
        /\ Len(gwLast.header) < 2 =>
               (gwLast.status = 401 /\ gwLast.error = "Access token required")
        /\ (Len(gwLast.header) >= 2 /\ ~GwValidToken(gwLast.header)) =>
               (gwLast.status = 403 /\ gwLast.error = "Invalid or expired token")
        /\ (GwValidToken(gwLast.header) /\ GwAllowed(gwLast.route) # {}
               /\ gwLast.header[2].role \notin GwAllowed(gwLast.route)) =>
               (gwLast.status = 403 /\ gwLast.error = "Insufficient permissions")
C30_Witness ==
    /\ Len(gwProxied) = 1
    /\ gwProxied[1].route = "/api/drivers"
    /\ gwLast.served /\ ~gwLast.forwarded /\ ~gwLast.limited
    /\ gwLast.route = "/api/cms"
    /\ GwValidToken(gwLast.header)
    /\ gwLast.status = 403

C32_BufferEmptyOnConnect ==
    [][(wmsSocket = "connecting" /\ wmsSocket' = "connected") => wmsBuffer' = <<>>]_vars

\* what a reply does to the promise of a pending request
ReplySettles(l) == IF l.status = "OK" THEN "resolved" ELSE "rejected"

\* C33: replies are matched line by line however they are cut into chunks:
\* a chunk that ends inside a reply settles and removes nothing, the chunk
\* that completes the reply settles the request of its id if that is
\* pending.
C33_RepliesMatchedRegardlessOfChunks ==
    [][/\ (srvTail = NoTail /\ srvTail' # NoTail) =>
              (pendingRequests' = pendingRequests /\ promise' = promise)
       /\ (srvTail # NoTail /\ srvTail' = NoTail /\ srvSock' = srvSock
              /\ srvTail.id \in pendingRequests) =>
              /\ pendingRequests' = pendingRequests \ {srvTail.id}
              /\ promise'[srvTail.id] = ReplySettles(srvTail)]_vars

\* C34: every request that was sent is settled in the end, unless the
\* process exits first, and its record is gone by then.
C34_EveryRequestSettled ==
    \A id \in RequestIds :
        [](promise[id] = "pending" =>
            <>((promise[id] # "pending" /\ id \notin pendingRequests) \/ srvPhase = "exited"))

\* C35: an ack with both ids that is handled while the broker channel is not
\* open is not published, and its orderId -> packageId pair is in the
\* correlation map once the chunk is processed (the pair of the last such
\* ack of the chunk, when several name the order).
C35_AckRecordedWithoutBroker ==
    [][(obs'.op = "data" /\ amqpCh # "open") =>
        \A i \in 1..Len(obs'.steps) :
            LET st == obs'.steps[i] IN
            (st.parsed /\ IsFullAck(st.msg)) =>
                /\ st.sent = <<>>
                /\ MapHas(orderToPackage', st.msg.orderId)
                /\ (\A j \in (i + 1)..Len(obs'.steps) :
                        ~(obs'.steps[j].parsed /\ IsFullAck(obs'.steps[j].msg)
                            /\ obs'.steps[j].msg.orderId = st.msg.orderId)) =>
                       MapGet(orderToPackage', st.msg.orderId) = st.msg.packageId]_vars
C35_Witness ==
    /\ obs.op = "data"
    /\ amqpCh # "open"
    /\ \E i \in 1..Len(obs.steps) :
        /\ obs.steps[i].parsed
        /\ obs.steps[i].msg = [type |-> "ack", packageId |-> "p1", orderId |-> "o1"]
        /\ obs.steps[i].sent = <<>>
    /\ MapHas(orderToPackage, "o1")
    /\ MapGet(orderToPackage, "o1") = "p1"

\* C36: the channel handle of connectRabbit is non-null only while its
\* connection is open: it is null while a reconnect timer is pending or a
\* connection attempt is under way, it never refers to a closed channel, and
\* the consumer exists only on the open channel of a completed setup.
C36_HandleOnlyWhileConnectionOpen ==
    /\ amqpCh # "stale"
    /\ rabbitPc \in {"timer", "connecting"} => amqpCh = "null"
    /\ "consumer" \in topology => (amqpCh = "open" /\ rabbitPc = "idle")

\* C37: a user who has a live socket is reachable: connectedUsers maps the
\* user to one of the user's sockets that is still connected, and
\* sendRealTimeNotification delivers exactly when the user has a live socket.
C37_UserWithLiveSocketReachable ==
    /\ \A u \in NsUsers : NsLive(u) # {} => connectedUsers[u] \in NsLive(u)
    /\ nsLast.served => (nsLast.ret <=> nsLast.live)

\* C38: the order.created handler of server.js always completes, so that its
\* message is acked: while a message is in its handler and the process runs,
\* the request the handler awaits either still has its record and its
\* timeout, which will settle it, or is settled already.
C38_HandlerAlwaysCompletes ==
    \A m \in ShipMsgIds :
        (shipMsg[m] = "handling" /\ srvPhase # "exited") =>
            \/ promise[shipReq[m]] # "pending"
            \/ shipReq[m] \in pendingRequests /\ shipReq[m] \in reqTimers

\* the outcome events published for a message
RosOutcomes(m) == {i \in 1..Len(rosLog) : rosLog[i].orderId = m}

OsAssigned == {r \in OsReqIds : osReq[r].res = 200}

\* C40: an order is assigned only while its status is 'created': at most one
\* assign request on it succeeds, a request answered 400 found another
\* status, and the driverId, the status 'assigned' and the only 'assigned'
\* tracking entry of the order stem from the request that succeeded.
C40_AssignedByOneRequest ==
    /\ Cardinality(OsAssigned) <= 1
    /\ \A r \in OsReqIds : osReq[r].res = 400 => osReq[r].loaded # "created"
    /\ osOrder.status = "assigned" =>
          /\ \E r \in OsAssigned :
                 osOrder.assignedBy = <<r>> /\ osOrder.driverId = osReq[r].driverId
          /\ osOrder.tracking = <<"created", "assigned">>
    /\ osOrder.status = "created" => (OsAssigned = {} /\ osOrder.tracking = <<"created">>)

====
